---------------------------- MODULE Spec2Model ----------------------------
(***************************************************************************)
(* A model of the soccerview data-collection scripts:                      *)
(*   - scrapers/heartland_scraper.py and heartland_scraper_v4.py (the      *)
(*     standings scraper: season codes, archive and live crawl, the        *)
(*     record accumulator and its output projections);                     *)
(*   - scripts/discover_tournaments.py (the tournament discoverer: the     *)
(*     retrying fetcher, listing pagination, the remote table store).      *)
(*                                                                         *)
(* Python strings that the code takes apart (season identifiers) are       *)
(* sequences of one-character strings, so that split, int(), str() and     *)
(* slicing are computed as the code computes them.                         *)
(***************************************************************************)
EXTENDS Integers, Sequences, FiniteSets, TLC

VARIABLES
    \* one call of a pure function: its argument, its result, called yet?
    fn_in, fn_out, fn_done,
    \* the standings scraper (heartland_scraper_v4.py), one process run:
    args,          \* the parsed command line
    pc,            \* where main() stands
    all_teams,     \* HeartlandScraper.all_teams, the record accumulator
    req_log,       \* the requests issued, in order: one entry per archive
                   \* page and one per scrape_live_division call
    todo,          \* the seasons still to be scraped (the current one first)
    div_idx,       \* scrape_archive_season: index of the next division
    season_teams,  \* scrape_archive_season / scrape_live_season: its local list
    files,         \* the output files written so far
    combo_idx,     \* scrape_live_division: place in its nested loops
    division_teams, \* scrape_live_division: its local list, teams
    exit_code,     \* None while running, then main()'s return value ("0",
                   \* "1") or the uncaught exception that ended the process
    \* the tournament discoverer (discover_tournaments.py), one process run:
    dargs,              \* the parsed command line
    dpc,                \* where the script stands
    current_page,       \* discover_tournaments: the loop variable
    seen_event_ids,     \* discover_tournaments: the in-run seen-set
    tournaments,        \* discover_tournaments: the list it builds
    page_log,           \* the listing pages requested, in order
    t_idx,              \* run_discovery / add_known_tournaments: the place
                        \* of the next tournament in the list being processed
    tournaments_saved,  \* run_discovery: its counters
    groups_saved,
    tournament_sources, \* the remote table of tournaments
    scrape_targets,     \* the remote table of scrape targets
    unique_event_id,    \* whether the remote table of tournaments refuses a
                        \* second row with the same event_id
    disc_log            \* what the discoverer has done to the store and to
                        \* the schedule pages, in order

fnVars == <<fn_in, fn_out, fn_done>>

\* The locals of scrape_live_division when it is followed request by
\* request.
liveVars == <<combo_idx, division_teams>>

scrVars == <<args, pc, all_teams, req_log, todo, div_idx, season_teams,
             files, exit_code, liveVars>>

discVars == <<dargs, dpc, current_page, seen_event_ids, tournaments, page_log,
              t_idx, tournaments_saved, groups_saved, tournament_sources,
              scrape_targets, unique_event_id, disc_log>>

vars == <<fn_in, fn_out, fn_done, args, pc, all_teams, req_log, todo,
          div_idx, season_teams, files, exit_code, liveVars, dargs, dpc, current_page,
          seen_event_ids, tournaments, page_log, t_idx, tournaments_saved,
          groups_saved, tournament_sources, scrape_targets, unique_event_id,
          disc_log>>

\* The value Python's None has in the model.
None == "None"

(***************************************************************************)
(* Python string and integer helpers                                       *)
(***************************************************************************)

DigitChars == <<"0", "1", "2", "3", "4", "5", "6", "7", "8", "9">>

IsDigit(c) == \E i \in 1..10 : DigitChars[i] = c

DigitVal(c) == (CHOOSE i \in 1..10 : DigitChars[i] = c) - 1

\* str.split(sep): the pieces of s between the occurrences of sep.
RECURSIVE PySplit(_, _)
PySplit(s, sep) ==
    IF \A i \in 1..Len(s) : s[i] # sep
    THEN <<s>>
    ELSE LET k == CHOOSE i \in 1..Len(s) :
                      s[i] = sep /\ \A j \in 1..(i - 1) : s[j] # sep
         IN <<SubSeq(s, 1, k - 1)>> \o PySplit(SubSeq(s, k + 1, Len(s)), sep)

\* The value of a non-empty run of decimal digits.
RECURSIVE DigitsValue(_)
DigitsValue(s) ==
    IF Len(s) = 0 THEN 0
    ELSE 10 * DigitsValue(SubSeq(s, 1, Len(s) - 1)) + DigitVal(s[Len(s)])

\* int(s): an optional sign and at least one decimal digit, else ValueError.
PyIntOk(s) ==
    LET body == IF Len(s) > 0 /\ s[1] \in {"+", "-"} THEN Tail(s) ELSE s
    IN Len(body) > 0 /\ \A i \in 1..Len(body) : IsDigit(body[i])

PyInt(s) ==
    IF Len(s) > 0 /\ s[1] = "-" THEN 0 - DigitsValue(Tail(s))
    ELSE IF Len(s) > 0 /\ s[1] = "+" THEN DigitsValue(Tail(s))
    ELSE DigitsValue(s)

\* str(n) of an integer: its decimal digits, a minus sign first when n < 0.
RECURSIVE NatStr(_)
NatStr(n) ==
    IF n < 10 THEN <<DigitChars[n + 1]>>
    ELSE NatStr(n \div 10) \o <<DigitChars[(n % 10) + 1]>>

PyStr(n) == IF n < 0 THEN <<"-">> \o NatStr(0 - n) ELSE NatStr(n)

\* s[-2:]: the last two characters, or all of s when it is shorter.
LastTwo(s) == IF Len(s) <= 2 THEN s ELSE SubSeq(s, Len(s) - 1, Len(s))

(***************************************************************************)
(* get_season_code (heartland_scraper.py 85-95, heartland_scraper_v4.py    *)
(* 95-105; the two are the same code).  The result is either a returned    *)
(* string or a raised ValueError (int() of a non-numeric first part).      *)
(***************************************************************************)

FALL == <<"f", "a", "l", "l">>
SPRING == <<"s", "p", "r", "i", "n", "g">>

Returned(v) == [raised |-> FALSE, value |-> v]
Raised(e) == [raised |-> TRUE, value |-> e]

\* A slip the season-code claim must notice: the fall branch takes the
\* suffix from the year itself instead of the following year.
get_season_code_SameYearSuffix(season) ==
    LET parts == PySplit(season, "_") IN
    IF Len(parts) # 2 THEN Returned(season)
    ELSE IF ~PyIntOk(parts[1]) THEN Raised("ValueError")
    ELSE LET year == PyInt(parts[1])
             term == parts[2]
         IN IF term = FALL
            THEN Returned(PyStr(year) \o <<"-">> \o LastTwo(PyStr(year)))
            ELSE Returned(PyStr(year - 1) \o <<"-">> \o LastTwo(PyStr(year)))

get_season_code(season) ==
    LET parts == PySplit(season, "_") IN
    IF Len(parts) # 2 THEN Returned(season)
    ELSE IF ~PyIntOk(parts[1]) THEN Raised("ValueError")
    ELSE LET year == PyInt(parts[1])
             term == parts[2]
         IN IF term = FALL
            THEN Returned(PyStr(year) \o <<"-">> \o LastTwo(PyStr(year + 1)))
            ELSE Returned(PyStr(year - 1) \o <<"-">> \o LastTwo(PyStr(year)))

(***************************************************************************)
(* SpecSeason: get_season_code called once on a season string.             *)
(***************************************************************************)

\* Every string of four decimal digits.
FourDigitStrings ==
    {<<DigitChars[a], DigitChars[b], DigitChars[c], DigitChars[d]>> :
        a \in 1..10, b \in 1..10, c \in 1..10, d \in 1..10}

\* Season strings that are not of the <year>_<term> form.
OddSeasons ==
    { <<"2", "0", "2", "4">>,
      <<"2", "0", "2", "4", "_", "f", "a", "l", "l", "_", "x">>,
      FALL \o <<"_">> \o <<"2", "0", "2", "4">>,
      <<"_">> \o FALL }

SeasonInputs ==
    {y \o <<"_">> \o t : y \in FourDigitStrings, t \in {FALL, SPRING}}
        \cup OddSeasons

FnIdle == fn_in = None /\ fn_out = None /\ fn_done = FALSE

\* No output file written yet: written names the files that exist.
NoFiles == [written |-> {}, csv |-> <<>>, json |-> <<>>, teams |-> <<>>,
            standings |-> <<>>]

\* The command line of a run that has not been given one.
NoArgs == [live |-> FALSE, season |-> <<>>, has_season |-> FALSE,
           force_live |-> FALSE, years |-> 3]

ScrIdle ==
    /\ args = NoArgs /\ pc = "idle" /\ all_teams = <<>> /\ req_log = <<>>
    /\ todo = <<>> /\ div_idx = 0 /\ season_teams = <<>>
    /\ files = NoFiles /\ exit_code = None
    /\ combo_idx = 0 /\ division_teams = <<>>

\* The discoverer when it is not run.
NoDiscArgs == [known_only |-> FALSE, states |-> <<>>, pages |-> 0]

DiscIdle ==
    /\ dargs = NoDiscArgs /\ dpc = "idle" /\ current_page = 0
    /\ seen_event_ids = {} /\ tournaments = <<>> /\ page_log = <<>>
    /\ t_idx = 0 /\ tournaments_saved = 0 /\ groups_saved = 0
    /\ tournament_sources = {} /\ scrape_targets = {}
    /\ unique_event_id = FALSE /\ disc_log = <<>>

InitSeason ==
    /\ fn_in \in SeasonInputs /\ fn_out = None /\ fn_done = FALSE
    /\ ScrIdle /\ DiscIdle

CallGetSeasonCode ==
    /\ ~fn_done
    /\ fn_out' = get_season_code(fn_in)
    /\ fn_done' = TRUE
    /\ UNCHANGED <<fn_in, scrVars, discVars>>

NextSeason == CallGetSeasonCode

SpecSeason == InitSeason /\ [][NextSeason]_vars

(***************************************************************************)
(* C1                                                                      *)
(***************************************************************************)

\* The year and term of a season string <4 digits>_<term>.
YearOf(season) == DigitsValue(SubSeq(season, 1, 4))
TermOf(season) == SubSeq(season, 6, Len(season))

IsYearTermSeason(season) ==
    /\ Len(season) > 5
    /\ SubSeq(season, 1, 4) \in FourDigitStrings
    /\ season[5] = "_"
    /\ TermOf(season) \in {FALL, SPRING}

\* n mod 100 written with exactly two digits.
TwoDigits(n) == <<DigitChars[((n % 100) \div 10) + 1], DigitChars[(n % 10) + 1]>>

\* The decimal numeral of n for 100 <= n <= 9999, digit by digit.
Numeral(n) ==
    IF n >= 1000
    THEN <<DigitChars[(n \div 1000) + 1], DigitChars[((n \div 100) % 10) + 1],
           DigitChars[((n \div 10) % 10) + 1], DigitChars[(n % 10) + 1]>>
    ELSE <<DigitChars[(n \div 100) + 1],
           DigitChars[((n \div 10) % 10) + 1], DigitChars[(n % 10) + 1]>>

SeasonString(year, term) == Numeral(year) \o <<"_">> \o term

\* C1: for a season <year>_fall with a four-digit year (1000..9999) the
\* season code is <year>-<(year+1) mod 100 in two digits>; for <year>_spring
\* it is <year-1>-<year mod 100 in two digits>; hence fall N and spring N+1
\* have the same code.
C1_SeasonCode ==
    (fn_done /\ IsYearTermSeason(fn_in) /\ YearOf(fn_in) >= 1000) =>
        LET y == YearOf(fn_in) IN
        /\ ~fn_out.raised
        /\ TermOf(fn_in) = FALL =>
              /\ fn_out.value = Numeral(y) \o <<"-">> \o TwoDigits(y + 1)
              /\ y < 9999 =>
                    get_season_code(SeasonString(y + 1, SPRING)) = fn_out
        /\ TermOf(fn_in) = SPRING =>
              fn_out.value = Numeral(y - 1) \o <<"-">> \o TwoDigits(y)

\* 2025_spring has been converted, to 2024-25.
C1_Witness ==
    /\ fn_done
    /\ fn_in = <<"2", "0", "2", "5">> \o <<"_">> \o SPRING
    /\ fn_out = Returned(<<"2", "0", "2", "4", "-", "2", "5">>)

(***************************************************************************)
(* The standings scraper: TeamStanding records and the team-season         *)
(* projection of save_supabase_format (heartland_scraper_v4.py 564-616,    *)
(* heartland_scraper.py 322-375).                                          *)
(***************************************************************************)

\* TeamStanding.matches_played
matches_played(t) == t.wins + t.losses + t.ties

\* The dictionary key of save_supabase_format, given the season code.
TeamKey(t, season_code) == <<t.team_name, t.gender, t.age_group, season_code>>

EntryKey(e) == <<e.team_name, e.gender, e.age_group, e.season_code>>

\* The value stored in teams_seen for record t.
TeamEntry(t, season_code) ==
    [team_name |-> t.team_name, state |-> "KS", gender |-> t.gender,
     age_group |-> t.age_group, season_code |-> season_code,
     source_name |-> "heartland_soccer", elo_rating |-> 1500,
     wins |-> t.wins, losses |-> t.losses, draws |-> t.ties,
     matches_played |-> matches_played(t)]

\* A slip the deduplication claim must notice: the stored entry is replaced
\* by every later record of the same key, whatever its matches played.
KeepsEntry_LastWins(seen, key, t) == FALSE

\* The test of the loop body, negated: the entry stored under key stays.
KeepsEntry(seen, key, t) ==
    \E i \in 1..Len(seen) :
        /\ EntryKey(seen[i]) = key
        /\ ~(matches_played(t) > seen[i].matches_played)

\* teams_seen[key] = entry on a dictionary that keeps insertion order: a new
\* key goes last, a known key keeps its place.
DictSet(seen, key, entry) ==
    IF \E i \in 1..Len(seen) : EntryKey(seen[i]) = key
    THEN [i \in 1..Len(seen) |->
              IF EntryKey(seen[i]) = key THEN entry ELSE seen[i]]
    ELSE Append(seen, entry)

\* The first loop of save_supabase_format over teams[i..], from dictionary
\* seen: the final dictionary, or ValueError as soon as get_season_code
\* raises.
RECURSIVE TeamsSeen(_, _, _)
TeamsSeen(teams, i, seen) ==
    IF i > Len(teams) THEN Returned(seen)
    ELSE LET t == teams[i]
             sc == get_season_code(t.season)
         IN IF sc.raised THEN sc
            ELSE LET key == TeamKey(t, sc.value) IN
                 IF KeepsEntry(seen, key, t)
                 THEN TeamsSeen(teams, i + 1, seen)
                 ELSE TeamsSeen(teams, i + 1,
                                DictSet(seen, key, TeamEntry(t, sc.value)))

BASE_URL == "https://www.heartlandsoccer.net"
ARCHIVES_PATH == "/reports/seasoninfo/archives/standings"

\* One element of standings_data.
StandingRow(t) ==
    [team_name |-> t.team_name, season |-> t.season,
     season_code |-> get_season_code(t.season).value,
     division |-> t.division, subdivision |-> t.subdivision,
     age_group |-> t.age_group, gender |-> t.gender,
     wins |-> t.wins, losses |-> t.losses, ties |-> t.ties,
     goals_for |-> t.goals_for, goals_against |-> t.goals_against,
     points |-> t.points, source |-> "heartland_soccer",
     source_url |-> <<BASE_URL, ARCHIVES_PATH, "/", t.season, "/",
                      t.division, ".html">>]

\* save_supabase_format: the two lists it writes, or the ValueError that
\* leaves it before anything is written.
save_supabase_format(teams) ==
    LET seen == TeamsSeen(teams, 1, <<>>) IN
    IF seen.raised THEN seen
    ELSE Returned([teams |-> seen.value,
                   standings |-> [i \in 1..Len(teams) |-> StandingRow(teams[i])]])

\* main(), line 666: the call of save_supabase_format.
SaveSupabaseFormat ==
    /\ pc = "save_supabase"
    /\ LET r == save_supabase_format(all_teams) IN
       IF r.raised
       THEN /\ pc' = "crashed"
            /\ exit_code' = r.value
            /\ UNCHANGED files
       ELSE /\ pc' = "summary"
            /\ files' = [files EXCEPT !.written = @ \cup {"teams", "standings"},
                                      !.teams = r.value.teams,
                                      !.standings = r.value.standings]
            /\ UNCHANGED exit_code
    /\ UNCHANGED <<args, all_teams, req_log, todo, div_idx, season_teams, fnVars, discVars, liveVars>>

(***************************************************************************)
(* SpecDedup: save_supabase_format on an arbitrary accumulated sequence.   *)
(***************************************************************************)

\* The longest accumulated sequence tried.
MaxDedupLen == 3

S2024_fall == <<"2", "0", "2", "4">> \o <<"_">> \o FALL
S2025_spring == <<"2", "0", "2", "5">> \o <<"_">> \o SPRING
S2025_fall == <<"2", "0", "2", "5">> \o <<"_">> \o FALL
S2026_spring == <<"2", "0", "2", "6">> \o <<"_">> \o SPRING

U12 == <<"U", "1", "2">>
U13 == <<"U", "1", "3">>

GenderOfDivision == [boys_prem |-> "Boys", girls_prem |-> "Girls"]

\* Records over six contexts, two of which (2024_fall, 2025_spring) share
\* every key component and each of the others differs from the first in one
\* component, and two results: more wins, or more matches played.
DedupRecords ==
    {[team_number |-> "", team_name |-> c[1], wins |-> wl[1], losses |-> wl[2],
      ties |-> 0, goals_for |-> 0, goals_against |-> 0, red_cards |-> 0,
      points |-> 3 * wl[1], season |-> c[4], division |-> c[2],
      age_group |-> c[3], subdivision |-> "Unknown",
      gender |-> GenderOfDivision[c[2]]] :
        wl \in {<<1, 0>>, <<0, 2>>},
        c \in {<<"A", "boys_prem", U12, S2024_fall>>,
               <<"A", "boys_prem", U12, S2025_spring>>,
               <<"A", "boys_prem", U12, S2025_fall>>,
               <<"A", "girls_prem", U12, S2024_fall>>,
               <<"A", "boys_prem", U13, S2024_fall>>,
               <<"B", "boys_prem", U12, S2024_fall>>}}

DedupInputs ==
    UNION {[1..n -> DedupRecords] : n \in 0..MaxDedupLen}

InitDedup ==
    /\ FnIdle
    /\ args = NoArgs /\ pc = "save_supabase" /\ all_teams \in DedupInputs
    /\ req_log = <<>> /\ todo = <<>> /\ div_idx = 0 /\ season_teams = <<>>
    /\ files = NoFiles /\ exit_code = None
    /\ combo_idx = 0 /\ division_teams = <<>>
    /\ DiscIdle

NextDedup == SaveSupabaseFormat

SpecDedup == InitDedup /\ [][NextDedup]_vars

(***************************************************************************)
(* C2                                                                      *)
(***************************************************************************)

\* The key of an accumulated record, the season code taken from its season.
KeyOfRecord(t) == TeamKey(t, get_season_code(t.season).value)

\* The greatest matches-played among the accumulated records with key k.
MaxPlayed(k) ==
    LET S == {matches_played(all_teams[i]) :
                 i \in {j \in 1..Len(all_teams) : KeyOfRecord(all_teams[j]) = k}}
    IN CHOOSE m \in S : \A x \in S : x <= m

\* C2: the team-season output of save_supabase_format holds exactly one
\* entry per distinct key (team name, gender, age group, season code) of the
\* accumulated records, and no other entry, and that entry's matches-played
\* is the maximum matches-played among the accumulated records with the key.
C2_Dedup ==
    "teams" \in files.written =>
        /\ \A i \in 1..Len(all_teams) :
              Cardinality({j \in 1..Len(files.teams) :
                  EntryKey(files.teams[j]) = KeyOfRecord(all_teams[i])}) = 1
        /\ \A j \in 1..Len(files.teams) :
              /\ \E i \in 1..Len(all_teams) :
                    KeyOfRecord(all_teams[i]) = EntryKey(files.teams[j])
              /\ files.teams[j].matches_played = MaxPlayed(EntryKey(files.teams[j]))

\* Three records of one key (2024_fall and 2025_spring share the code
\* 2024-25), the greatest matches-played in the middle, have been reduced to
\* one entry.
C2_Witness ==
    /\ "teams" \in files.written
    /\ Len(all_teams) = 3
    /\ Len(files.teams) = 1
    /\ all_teams[1].season # all_teams[2].season
    /\ matches_played(all_teams[1]) < matches_played(all_teams[2])
    /\ matches_played(all_teams[3]) < matches_played(all_teams[2])

(***************************************************************************)
(* The standings scraper, v4: configuration (heartland_scraper_v4.py       *)
(* 41-109).                                                                *)
(***************************************************************************)

CGI_STANDINGS_PATH == "/reports/cgi-jrb/subdiv_standings.cgi"

CURRENT_SEASON == S2025_fall

PREMIER_AGE_GROUPS ==
    << <<"U", "-", "9">>, <<"U", "-", "1", "0">>, <<"U", "-", "1", "1">>, <<"U", "-", "1", "2">>, <<"U", "-", "1", "3">>, <<"U", "-", "1", "4">>,
       <<"U", "-", "1", "5">>, <<"U", "-", "1", "6">>, <<"U", "-", "1", "7">>, <<"U", "-", "1", "8">>, <<"U", "-", "1", "9">> >>

\* list(range(1, 15)); scrape_live_division passes str(subdiv).
PREMIER_SUBDIVISIONS == [i \in 1..14 |-> PyStr(i)]

REC_AGE_GROUPS ==
    << <<"U", "-", "9", "/", "3", "r", "d", " ", "G", "r", "a", "d", "e", " ", "7", "v", "7">>, <<"U", "-", "9", "/", "1", "0", "-", "3", "r", "d", "/", "4", "t", "h", " ", "G", "r", "a", "d", "e", " ", "9", "v", "9">>,
       <<"U", "-", "1", "0", "/", "4", "t", "h", " ", "G", "r", "a", "d", "e", " ", "7", "v", "7">>, <<"U", "-", "1", "0", "/", "4", "t", "h", " ", "G", "r", "a", "d", "e", " ", "9", "v", "9">>,
       <<"U", "-", "1", "1", "/", "5", "t", "h", " ", "G", "r", "a", "d", "e", " ", "9", "v", "9">>, <<"U", "-", "1", "2", "/", "6", "t", "h", " ", "G", "r", "a", "d", "e", " ", "9", "v", "9">>,
       <<"U", "-", "1", "3", "/", "7", "t", "h", " ", "G", "r", "a", "d", "e">>, <<"U", "-", "1", "4", "/", "8", "t", "h", " ", "G", "r", "a", "d", "e">>, <<"U", "-", "1", "4", "/", "1", "5", "-", "8", "t", "h", "/", "9", "t", "h", " ", "G", "r", "a", "d", "e">> >>

REC_SUBDIVISIONS == << <<"C", "A", "N", "A", "D", "A">>, <<"M", "E", "X", "I", "C", "O">>, <<"U", "S", "A">>, <<"1">>, <<"2">>, <<"3">> >>

DIVISIONS == <<"boys_prem", "girls_prem", "boys_rec", "girls_rec">>

\* The fall seasons 2002..2025 and the spring seasons 2003..2026 without
\* 2006 and 2020, as listed (membership is all the code uses).
ALL_SEASONS ==
    {NatStr(y) \o <<"_">> \o FALL : y \in 2002..2025}
        \cup {NatStr(y) \o <<"_">> \o SPRING : y \in (2003..2026) \ {2006, 2020}}

\* The concatenation of ss[lo..hi], by halves.
RECURSIVE FlattenRange(_, _, _)
FlattenRange(ss, lo, hi) ==
    IF lo > hi THEN <<>>
    ELSE IF lo = hi THEN ss[lo]
    ELSE LET mid == (lo + hi) \div 2
         IN FlattenRange(ss, lo, mid) \o FlattenRange(ss, mid + 1, hi)

\* The concatenation of a sequence of sequences (list.extend in a loop).
FlattenSeq(ss) == FlattenRange(ss, 1, Len(ss))

\* [x for x in seq if x in S]
RECURSIVE FilterIn(_, _)
FilterIn(seq, S) ==
    IF seq = <<>> THEN <<>>
    ELSE (IF Head(seq) \in S THEN <<Head(seq)>> ELSE <<>>) \o FilterIn(Tail(seq), S)

season_map ==
    << <<S2025_fall, S2026_spring>>,
       <<NatStr(2024) \o <<"_">> \o FALL, NatStr(2025) \o <<"_">> \o SPRING>>,
       <<NatStr(2023) \o <<"_">> \o FALL, NatStr(2024) \o <<"_">> \o SPRING>>,
       <<NatStr(2022) \o <<"_">> \o FALL, NatStr(2023) \o <<"_">> \o SPRING>> >>

Min(a, b) == IF a < b THEN a ELSE b

\* range(1, min(years + 1, 5)) is 1..min(years, 4).
get_seasons_for_years(years) ==
    FilterIn(FlattenSeq([y \in 1..Min(years, 4) |-> season_map[y]]), ALL_SEASONS)

is_current_season(season) == season \in {S2025_fall, S2026_spring}

\* _parse_gender
parse_gender(division) ==
    IF division \in {"boys_prem", "boys_rec"} THEN "Boys"
    ELSE IF division \in {"girls_prem", "girls_rec"} THEN "Girls"
    ELSE "Unknown"

UNKNOWN == <<"U", "n", "k", "n", "o", "w", "n">>

\* _extract_age_group: re.search(r'U-?(\d+)', text, re.IGNORECASE).  The
\* first position where U or u, an optional dash and a digit follow one
\* another starts the match; the group is the longest run of digits there.
DigitsStart(text, i) ==
    IF i + 1 <= Len(text) /\ text[i + 1] = "-" /\ i + 2 <= Len(text)
       /\ IsDigit(text[i + 2])
    THEN i + 2
    ELSE IF i + 1 <= Len(text) /\ IsDigit(text[i + 1]) THEN i + 1
    ELSE 0

RECURSIVE DigitRun(_, _)
DigitRun(text, i) ==
    IF i <= Len(text) /\ IsDigit(text[i])
    THEN <<text[i]>> \o DigitRun(text, i + 1)
    ELSE <<>>

AgeMatchAt(text, i) == text[i] \in {"U", "u"} /\ DigitsStart(text, i) # 0

extract_age_group(text) ==
    IF \E i \in 1..Len(text) : AgeMatchAt(text, i)
    THEN LET k == CHOOSE i \in 1..Len(text) :
                      AgeMatchAt(text, i) /\ \A j \in 1..(i - 1) : ~AgeMatchAt(text, j)
         IN <<"U">> \o DigitRun(text, DigitsStart(text, k))
    ELSE UNKNOWN


(***************************************************************************)
(* Fetching and parsing.  A response is what the site answers to one GET:  *)
(* its status class and its body.  The body is represented by what the     *)
(* parsers read from it: whether it carries the error phrase of the live   *)
(* endpoint, the section heading above its table and the table's data      *)
(* rows (team code, name and the seven numbers), already cell-split.       *)
(***************************************************************************)

\* The most records one run accumulates.
MaxTeams == 2

RowA == [team_number |-> "", team_name |-> "A", wins |-> 1, losses |-> 0,
         ties |-> 0, goals_for |-> 2, goals_against |-> 1, red_cards |-> 0,
         points |-> 3]
RowB == [team_number |-> "B123", team_name |-> "B", wins |-> 0, losses |-> 1,
         ties |-> 1, goals_for |-> 1, goals_against |-> 2, red_cards |-> 1,
         points |-> 1]

PageRowLists == {<<>>, <<RowA>>, <<RowA, RowB>>}

HeadingText == "U12 Premier Subdivision 3"

\* The answers tried: a transport failure; an HTTP error status, whose body
\* holds a parsable table; a success with no, one or two data rows; a success
\* whose body holds the error phrase and a parsable table.
Responses ==
    {[status |-> "transport_error", error_page |-> FALSE, rows |-> <<>>],
     [status |-> "http_error", error_page |-> FALSE, rows |-> <<RowA>>],
     [status |-> "ok", error_page |-> TRUE, rows |-> <<RowA>>]}
        \cup {[status |-> "ok", error_page |-> FALSE, rows |-> r] : r \in PageRowLists}

\* A slip the archive-failure claim must notice: the body of an HTTP error
\* response is handed on as if the request had succeeded.
_make_request_IgnoresStatus(resp) ==
    IF resp.status = "transport_error" THEN <<>> ELSE <<resp>>

\* HeartlandScraper._make_request: the body (a one-element sequence) when
\* the GET succeeds and raise_for_status() passes, None (the empty sequence)
\* when either raises requests.RequestException.
_make_request(resp) == IF resp.status = "ok" THEN <<resp>> ELSE <<>>

\* The TeamStanding a parser builds from a data row in its context.
TeamStanding(row, season, division, age_group, subdivision, gender) ==
    [team_number |-> row.team_number, team_name |-> row.team_name,
     wins |-> row.wins, losses |-> row.losses, ties |-> row.ties,
     goals_for |-> row.goals_for, goals_against |-> row.goals_against,
     red_cards |-> row.red_cards, points |-> row.points,
     season |-> season, division |-> division, age_group |-> age_group,
     subdivision |-> subdivision, gender |-> gender]

\* _parse_archive_html on a body whose table stands under the heading
\* HeadingText.
parse_archive_html(body, season, division) ==
    [i \in 1..Len(body.rows) |->
        TeamStanding(body.rows[i], season, division, U12, HeadingText,
                     parse_gender(division))]

\* scrape_archive_page: the records of one (season, division) page (an
\* empty body, which the code returns [] for, has no rows to parse either).
scrape_archive_page(season, division, resp) ==
    LET html == _make_request(resp) IN
    IF html = <<>> THEN <<>>
    ELSE parse_archive_html(html[1], season, division)

\* The request scrape_archive_page issues, with three ghost fields: whether
\* it failed, how many records the page yielded and which.
ArchiveRequest(season, division, resp, teams) ==
    [kind |-> "archive",
     url |-> <<BASE_URL, ARCHIVES_PATH, "/", season, "/", division, ".html">>,
     season |-> season, division |-> division,
     failed |-> (resp.status # "ok"), yielded |-> Len(teams), teams |-> teams]

\* _parse_cgi_response: division, age group and subdivision name come from
\* the form parameters.
parse_cgi_response(body, season, gender, level, age, subdivision) ==
    LET division == IF level = "Premier"
                    THEN (IF gender = "Boys" THEN "boys_prem" ELSE "girls_prem")
                    ELSE (IF gender = "Boys" THEN "boys_rec" ELSE "girls_rec")
        subdivision_name == <<age, " ", gender, " ", level, " Subdivision ", subdivision>>
    IN [i \in 1..Len(body.rows) |->
           TeamStanding(body.rows[i], season, division, extract_age_group(age),
                        subdivision_name, gender)]

\* _scrape_cgi_standings: nothing on a failed request, an empty body or an
\* error page.
scrape_cgi_standings(gender, level, age, subdivision, season, resp) ==
    LET html == _make_request(resp) IN
    IF html = <<>> THEN <<>>
    ELSE IF html[1].error_page THEN <<>>
    ELSE parse_cgi_response(html[1], season, gender, level, age, subdivision)

\* A slip the season-independence claim must notice: the season is sent
\* with the request.
LiveRequest_SendsSeason(gender, level, age, subdivision, season) ==
    [kind |-> "live", url |-> <<BASE_URL, CGI_STANDINGS_PATH, "?season=", season>>,
     level |-> level, sex |-> gender, age |-> age, subdivision |-> subdivision,
     for_season |-> season]

\* The request _scrape_cgi_standings issues: the four form parameters.  The
\* season is not part of it; for_season is a ghost field naming the season
\* the crawl was started for.
LiveRequest(gender, level, age, subdivision, season) ==
    [kind |-> "live", url |-> <<BASE_URL, CGI_STANDINGS_PATH>>,
     level |-> level, sex |-> gender, age |-> age, subdivision |-> subdivision,
     for_season |-> season]

AgeGroupsOf(level) == IF level = "Premier" THEN PREMIER_AGE_GROUPS ELSE REC_AGE_GROUPS
SubdivisionsOf(level) == IF level = "Premier" THEN PREMIER_SUBDIVISIONS ELSE REC_SUBDIVISIONS

\* The requests of one scrape_live_division call: len(age_groups) *
\* len(subdivisions).
NumCombos(level) == Len(AgeGroupsOf(level)) * Len(SubdivisionsOf(level))

\* A slip the request-order claim must notice: the age groups run in the
\* inner loop.
LiveCombo_AgesInner(level, k) ==
    <<AgeGroupsOf(level)[((k - 1) % Len(AgeGroupsOf(level))) + 1],
      SubdivisionsOf(level)[((k - 1) \div Len(AgeGroupsOf(level))) + 1]>>

\* The k-th (age, subdivision) pair of scrape_live_division's nested loops:
\* the subdivisions run in the inner loop.
LiveCombo(level, k) ==
    <<AgeGroupsOf(level)[((k - 1) \div Len(SubdivisionsOf(level))) + 1],
      SubdivisionsOf(level)[((k - 1) % Len(SubdivisionsOf(level))) + 1]>>

\* scrape_live_division: the records of every combination, in loop order;
\* resps[k] is the site's answer to the k-th request.
scrape_live_division(gender, level, season, resps) ==
    FlattenSeq([k \in 1..NumCombos(level) |->
        scrape_cgi_standings(gender, level, LiveCombo(level, k)[1],
                             LiveCombo(level, k)[2], season, resps[k])])

LiveDivisionRequests(gender, level, season) ==
    [k \in 1..NumCombos(level) |->
        LiveRequest(gender, level, LiveCombo(level, k)[1],
                    LiveCombo(level, k)[2], season)]

\* The log entry of one scrape_live_division call: it stands for the
\* requests LiveDivisionRequests lists, which the call issues one after the
\* other whatever the answers are (415-427: no break, no return); teams is
\* a ghost field, the records its pages yielded, in request order.
LiveDivisionCall(gender, level, season, teams) ==
    [kind |-> "live", sex |-> gender, level |-> level, for_season |-> season,
     requests |-> NumCombos(level), teams |-> teams]

\* scrape_live_season's four calls, in order.
LIVE_DIVISIONS ==
    << <<"Boys", "Premier">>, <<"Girls", "Premier">>,
       <<"Boys", "Recreational">>, <<"Girls", "Recreational">> >>


(***************************************************************************)
(* main() of heartland_scraper_v4.py (623-694) and the scrape methods it   *)
(* calls (432-533), one action per call or loop iteration.                 *)
(***************************************************************************)

\* The values given to --years.
YearsArgs == {1}

FALL_2024 == FALL \o <<"_">> \o <<"2", "0", "2", "4">>
ONLY_2024 == <<"2", "0", "2", "4">>

\* Values given to --season: the current season, an archived one, and two
\* strings that are not of the <year>_<term> form.
SeasonArgs == {S2025_fall, S2024_fall, FALL_2024, ONLY_2024}

\* Command lines: --live (with or without --season), --season (with or
\* without --force-live), or neither (--years, with or without
\* --force-live).  An absent --season is the empty string: the code tests
\* args.season for truth.
ArgsSet ==
    {[live |-> TRUE, season |-> s, force_live |-> FALSE, years |-> 3] :
        s \in {<<>>, S2024_fall}}
    \cup {[live |-> FALSE, season |-> s, force_live |-> f, years |-> 3] :
        s \in SeasonArgs, f \in BOOLEAN}
    \cup {[live |-> FALSE, season |-> <<>>, force_live |-> f, years |-> y] :
        f \in BOOLEAN, y \in YearsArgs}

InitScrape ==
    /\ FnIdle
    /\ args \in ArgsSet /\ pc = "main" /\ all_teams = <<>> /\ req_log = <<>>
    /\ todo = <<>> /\ div_idx = 0 /\ season_teams = <<>>
    /\ files = NoFiles /\ exit_code = None
    /\ combo_idx = 0 /\ division_teams = <<>>
    /\ DiscIdle

\* main(), 652-654: --live scrapes CURRENT_SEASON through the live path.
MainLive ==
    /\ pc = "main" /\ args.live
    /\ todo' = <<CURRENT_SEASON>>
    /\ pc' = "live" /\ div_idx' = 1 /\ season_teams' = <<>>
    /\ UNCHANGED <<args, all_teams, req_log, files, exit_code, fnVars, discVars, liveVars>>

\* main(), 655-657: --season.
MainSeason ==
    /\ pc = "main" /\ ~args.live /\ args.season # <<>>
    /\ todo' = <<args.season>>
    /\ pc' = "scrape_season"
    /\ UNCHANGED <<args, all_teams, req_log, div_idx, season_teams, files,
                   exit_code, fnVars, discVars, liveVars>>

\* main(), 658-660, and scrape_years up to its loop.
MainYears ==
    /\ pc = "main" /\ ~args.live /\ args.season = <<>>
    /\ todo' = get_seasons_for_years(args.years)
    /\ pc' = "scrape_season"
    /\ UNCHANGED <<args, all_teams, req_log, div_idx, season_teams, files,
                   exit_code, fnVars, discVars, liveVars>>

\* A slip the path-selection claim must notice: the current season is sent
\* to the archive like any other.
UsesLive_ForceOnly(season) == args.force_live

\* scrape_season, 509: the live path is taken at once.
UsesLive(season) == args.force_live \/ is_current_season(season)

\* scrape_season, 509-515: the choice between the live and the archive path.
ScrapeSeason ==
    /\ pc = "scrape_season"
    /\ pc' = IF UsesLive(Head(todo)) THEN "live" ELSE "archive"
    /\ div_idx' = 1 /\ season_teams' = <<>>
    /\ UNCHANGED <<args, all_teams, req_log, todo, files, exit_code, fnVars, discVars, liveVars>>

\* Where control goes when the season at the head of todo is finished.
AfterSeason == IF Len(todo) > 1 THEN "scrape_season" ELSE "save_check"

\* A slip the append-only claim must notice: the list is replaced by the
\* new records.
Extend_Assigns(list, teams) == teams

\* list.extend(teams), 492-493 and 440-456.
Extend(list, teams) == list \o teams

\* scrape_archive_season, 490-493: one iteration, the page of one division.
ScrapeArchivePage ==
    /\ pc = "archive"
    /\ \E resp \in Responses :
        LET season == Head(todo)
            division == DIVISIONS[div_idx]
            teams == scrape_archive_page(season, division, resp)
        IN /\ Len(all_teams) + Len(teams) <= MaxTeams
           /\ req_log' = Append(req_log, ArchiveRequest(season, division, resp, teams))
           /\ season_teams' = Extend(season_teams, teams)
           /\ all_teams' = Extend(all_teams, teams)
    /\ div_idx' = div_idx + 1
    /\ pc' = IF div_idx = Len(DIVISIONS) THEN "archive_done" ELSE "archive"
    /\ UNCHANGED <<args, todo, files, exit_code, fnVars, discVars, liveVars>>

\* scrape_season, 518: "if not teams".
ArchiveEmpty(teams) == teams = <<>>

\* scrape_season, 515-522: after the archive crawl, fall back to the live
\* path when it yielded nothing.
ArchiveSeasonEnd ==
    /\ pc = "archive_done"
    /\ IF ArchiveEmpty(season_teams)
       THEN /\ pc' = "live" /\ div_idx' = 1 /\ season_teams' = <<>>
            /\ UNCHANGED todo
       ELSE /\ pc' = AfterSeason /\ todo' = Tail(todo)
            /\ UNCHANGED <<div_idx, season_teams>>
    /\ UNCHANGED <<args, all_teams, req_log, files, exit_code, fnVars, discVars, liveVars>>

\* The answers the live path gets nothing from.
BarrenResponses ==
    {r \in Responses : r.status # "ok" \/ r.error_page \/ r.rows = <<>>}

\* The site's answers to the n requests of one live division: one
\* combination, the first or the last, answers on its own, all the others
\* give one and the same barren answer.
LiveResponseMaps(n) ==
    {[k \in 1..n |-> IF k = p THEN d ELSE base] :
        base \in {r \in BarrenResponses : r.rows = <<>>},
        d \in Responses, p \in {1, n}}

\* scrape_live_season, 439-456: one of its four scrape_live_division calls
\* and the extend of the accumulator that follows it.
ScrapeLiveDivision ==
    /\ pc = "live"
    /\ LET season == Head(todo)
           gender == LIVE_DIVISIONS[div_idx][1]
           level == LIVE_DIVISIONS[div_idx][2]
       IN /\ \E resps \in LiveResponseMaps(NumCombos(level)) :
               LET teams == scrape_live_division(gender, level, season, resps)
               IN /\ Len(all_teams) + Len(teams) <= MaxTeams
                  /\ season_teams' = Extend(season_teams, teams)
                  /\ all_teams' = Extend(all_teams, teams)
                  /\ req_log' = Append(req_log,
                         LiveDivisionCall(gender, level, season, teams))
    /\ div_idx' = div_idx + 1
    /\ IF div_idx = Len(LIVE_DIVISIONS)
       THEN pc' = AfterSeason /\ todo' = Tail(todo)
       ELSE pc' = "live" /\ UNCHANGED todo
    /\ UNCHANGED <<args, files, exit_code, fnVars, discVars, liveVars>>

\* main(), 663 and 688-692: nothing collected, exit code 1.
SaveCheck ==
    /\ pc = "save_check"
    /\ IF all_teams # <<>>
       THEN pc' = "save_csv" /\ UNCHANGED exit_code
       ELSE pc' = "done" /\ exit_code' = "1"
    /\ UNCHANGED <<args, all_teams, req_log, todo, div_idx, season_teams,
                   files, fnVars, discVars, liveVars>>

\* save_csv: the raw records, unless pandas is missing.
SaveCsv ==
    /\ pc = "save_csv"
    /\ \E pandas \in BOOLEAN :
        files' = IF pandas
                 THEN [files EXCEPT !.written = @ \cup {"csv"}, !.csv = all_teams]
                 ELSE files
    /\ pc' = "save_json"
    /\ UNCHANGED <<args, all_teams, req_log, todo, div_idx, season_teams,
                   exit_code, fnVars, discVars, liveVars>>

\* save_json: the raw records.
SaveJson ==
    /\ pc = "save_json"
    /\ files' = [files EXCEPT !.written = @ \cup {"json"}, !.json = all_teams]
    /\ pc' = "save_supabase"
    /\ UNCHANGED <<args, all_teams, req_log, todo, div_idx, season_teams,
                   exit_code, fnVars, discVars, liveVars>>

\* main(), 668-694: the per-season counts (get_season_code once more) and
\* exit code 0.
Summary ==
    /\ pc = "summary"
    /\ IF \E i \in 1..Len(all_teams) : get_season_code(all_teams[i].season).raised
       THEN pc' = "crashed" /\ exit_code' = "ValueError"
       ELSE pc' = "done" /\ exit_code' = "0"
    /\ UNCHANGED <<args, all_teams, req_log, todo, div_idx, season_teams,
                   files, fnVars, discVars, liveVars>>

NextScrape ==
    \/ MainLive \/ MainSeason \/ MainYears
    \/ ScrapeSeason \/ ScrapeArchivePage \/ ArchiveSeasonEnd
    \/ ScrapeLiveDivision
    \/ SaveCheck \/ SaveCsv \/ SaveJson \/ SaveSupabaseFormat \/ Summary

SpecScrape == InitScrape /\ [][NextScrape]_vars


(***************************************************************************)
(* C3, C5, C10                                                             *)
(***************************************************************************)

\* The places in req_log of the archive requests for season s, and of the
\* live-division calls made for it.
ArchiveIdx(s) ==
    {i \in 1..Len(req_log) : req_log[i].kind = "archive" /\ req_log[i].season = s}

LiveIdx(s) ==
    {i \in 1..Len(req_log) : req_log[i].kind = "live" /\ req_log[i].for_season = s}

\* Every season a run of the model can be asked for.
SeasonUniverse ==
    SeasonArgs \cup {S2025_fall, S2026_spring}
        \cup {NatStr(y) \o <<"_">> \o FALL : y \in 2022..2024}
        \cup {NatStr(y) \o <<"_">> \o SPRING : y \in 2023..2025}

\* scrape_season(s) has been called and has returned.
SeasonFinished(s) ==
    /\ pc \notin {"main", "idle"}
    /\ \A i \in 1..Len(todo) : todo[i] # s
    /\ ArchiveIdx(s) \cup LiveIdx(s) # {}

\* The archive requests for s are the four division pages, in order.
ArchiveComplete(s) ==
    /\ Cardinality(ArchiveIdx(s)) = 4
    /\ \A i \in ArchiveIdx(s) :
          req_log[i].division = DIVISIONS[Cardinality({j \in ArchiveIdx(s) : j <= i})]

ArchiveYieldedNothing(s) == \A i \in ArchiveIdx(s) : req_log[i].yielded = 0

\* C3: in scrape_season, when force_live is set or the season is the
\* current one, only the live path runs and no archive page is requested;
\* otherwise the archive path runs first over all four divisions, and the
\* live path runs afterwards if and only if the archive yielded no record.
C3_PathSelection ==
    ~args.live =>
        \A s \in SeasonUniverse :
            IF args.force_live \/ s \in {S2025_fall, S2026_spring}
            THEN /\ ArchiveIdx(s) = {}
                 /\ SeasonFinished(s) => Cardinality(LiveIdx(s)) = 4
            ELSE /\ \A i \in LiveIdx(s) :
                        /\ ArchiveComplete(s)
                        /\ \A j \in ArchiveIdx(s) : j < i
                        /\ ArchiveYieldedNothing(s)
                 /\ SeasonFinished(s) =>
                        /\ ArchiveComplete(s)
                        /\ (LiveIdx(s) # {}) <=> ArchiveYieldedNothing(s)
                        /\ LiveIdx(s) # {} => Cardinality(LiveIdx(s)) = 4

\* The archived season 2024_fall has been scraped without --force-live: its
\* four archive pages yielded nothing and the live fallback has run.
C3_Witness ==
    /\ ~args.live /\ ~args.force_live
    /\ SeasonFinished(S2024_fall)
    /\ ArchiveComplete(S2024_fall)
    /\ ArchiveYieldedNothing(S2024_fall)
    /\ Cardinality(LiveIdx(S2024_fall)) = 4
    /\ all_teams # <<>>

\* For every (season, division) at most one archive request; once the
\* archive crawl of a season is over, exactly one per division; a failed
\* request yielded nothing.
C5_State ==
    /\ \A i, j \in 1..Len(req_log) :
          (/\ req_log[i].kind = "archive" /\ req_log[j].kind = "archive"
           /\ req_log[i].season = req_log[j].season
           /\ req_log[i].division = req_log[j].division) => i = j
    /\ \A i \in 1..Len(req_log) :
          (req_log[i].kind = "archive" /\ req_log[i].failed) =>
              req_log[i].yielded = 0
    /\ \A s \in SeasonUniverse :
          (ArchiveIdx(s) # {} /\ (pc \notin {"archive"} \/ Head(todo) # s)) =>
              ArchiveComplete(s)

\* The step that issues a failing archive request leaves the accumulator
\* as it was, raises nothing and goes on with the crawl.
C5_Step ==
    (/\ Len(req_log') = Len(req_log) + 1
     /\ req_log'[Len(req_log')].kind = "archive"
     /\ req_log'[Len(req_log')].failed) =>
        /\ all_teams' = all_teams
        /\ exit_code' = None
        /\ pc' \in {"archive", "archive_done"}
        /\ pc' = "archive" => div_idx' <= Len(DIVISIONS)

\* C5: the archive scraper requests each (season, division) page exactly
\* once; a failed request (transport error or HTTP error status) contributes
\* no record and leaves the accumulator unchanged, no error propagates, and
\* the remaining pages are still fetched.
C5_ArchiveFailure == []C5_State /\ [][C5_Step]_vars

\* An archive crawl whose first page failed has gone on to fetch the other
\* three, and a later page has yielded records.
C5_Witness ==
    /\ pc = "archive_done"
    /\ ArchiveComplete(Head(todo))
    /\ \E i \in ArchiveIdx(Head(todo)) :
          /\ req_log[i].failed
          /\ \E j \in ArchiveIdx(Head(todo)) : j > i /\ req_log[j].yielded > 0

\* C10: a v4 run given --season (with or without --force-live) is never
\* fatal: whatever the fetches return it ends by returning exit code 0 or 1,
\* with no uncaught error between collecting the records and writing the
\* output projections.
C10_NeverFatal ==
    (~args.live /\ args.season # <<>>) =>
        /\ pc # "crashed"
        /\ exit_code \in {None, "0", "1"}


(***************************************************************************)
(* scripts/discover_tournaments.py: the retrying fetcher (make_request,    *)
(* 115-127).  The site's answers to the attempts of one call are a         *)
(* sequence of [status, body]; what the call does is recorded as a trace   *)
(* of sleeps and GETs.                                                     *)
(***************************************************************************)

REQUEST_DELAY == 2
MAX_RETRIES == 3

Sleep(secs) == [ev |-> "sleep", secs |-> secs, attempt |-> 0]
Get(attempt) == [ev |-> "get", secs |-> 0, attempt |-> attempt]

\* A slip the retry claim must notice: the longer delay is slept after the
\* last failed attempt as well.
LongDelayDue_Always(attempt, retries) == TRUE

\* make_request, 125: "if attempt < retries - 1" (attempt counts from 0).
LongDelayDue(attempt, retries) == attempt < retries - 1

\* make_request, 117-127, from the iteration numbered attempt on.
RECURSIVE make_request_from(_, _, _, _)
make_request_from(answers, retries, attempt, trace) ==
    IF attempt >= retries
    THEN [response |-> <<>>, trace |-> trace]
    ELSE LET tried == trace \o <<Sleep(REQUEST_DELAY), Get(attempt + 1)>>
         IN IF answers[attempt + 1].status = "ok"
            THEN [response |-> <<answers[attempt + 1]>>, trace |-> tried]
            ELSE make_request_from(answers, retries, attempt + 1,
                     IF LongDelayDue(attempt, retries)
                     THEN Append(tried, Sleep(REQUEST_DELAY * 2))
                     ELSE tried)

\* A slip the termination claim must notice: a call that failed starts its
\* attempts over once more.
make_request_Again(answers, retries) ==
    LET first == make_request_from(answers, retries, 0, <<>>)
    IN IF first.response # <<>> THEN first
       ELSE make_request_from(answers, retries, 0, first.trace)

\* make_request(url, retries): the response (a one-element sequence) or
\* None (the empty sequence), and the trace of what it did.
make_request(answers, retries) == make_request_from(answers, retries, 0, <<>>)

(***************************************************************************)
(* SpecRetry: make_request called once, for every retry count up to        *)
(* MaxRetriesTried and every way the attempts can go.                      *)
(***************************************************************************)

MaxRetriesTried == 4

\* requests.get succeeds with a 2xx status, succeeds with another status
\* (raise_for_status raises HTTPError), or raises in transport.
AttemptStatuses == {"ok", "http_error", "transport_error"}

\* The body of the k-th answer is k, so that the answer returned tells
\* which attempt it came from.
RetryInputs ==
    UNION {{[retries |-> r,
             answers |-> [k \in 1..r |-> [status |-> st[k], body |-> k]]] :
                st \in [1..r -> AttemptStatuses]} : r \in 0..MaxRetriesTried}

InitRetry ==
    /\ fn_in \in RetryInputs /\ fn_out = None /\ fn_done = FALSE
    /\ ScrIdle /\ DiscIdle

CallMakeRequest ==
    /\ ~fn_done
    /\ fn_out' = make_request(fn_in.answers, fn_in.retries)
    /\ fn_done' = TRUE
    /\ UNCHANGED <<fn_in, scrVars, discVars>>

NextRetry == CallMakeRequest

SpecRetry == InitRetry /\ [][NextRetry]_vars

\* C4: make_request(url, retries=R) makes at most R GET attempts, numbered
\* in order; it returns the response of the first attempt that succeeds and
\* attempts nothing after it; it returns None only after R failed attempts;
\* after each failed attempt except the R-th it sleeps twice REQUEST_DELAY
\* before going on, and it sleeps that long at no other time.
C4_Retry ==
    fn_done =>
        LET R == fn_in.retries
            trace == fn_out.trace
            gets == {i \in 1..Len(trace) : trace[i].ev = "get"}
            n == Cardinality(gets)
            failed(k) == fn_in.answers[k].status # "ok"
        IN /\ n <= R
           /\ \A i \in gets :
                 trace[i].attempt = Cardinality({j \in gets : j <= i})
           /\ \A k \in 1..(n - 1) : failed(k)
           /\ IF fn_out.response # <<>>
              THEN /\ n >= 1 /\ ~failed(n)
                   /\ fn_out.response = <<fn_in.answers[n]>>
              ELSE /\ n = R
                   /\ \A k \in 1..R : failed(k)
           /\ \A i \in gets :
                 IF failed(trace[i].attempt) /\ trace[i].attempt < R
                 THEN /\ i < Len(trace)
                      /\ trace[i + 1] = Sleep(2 * REQUEST_DELAY)
                 ELSE i = Len(trace)
           /\ \A i \in 1..Len(trace) :
                 trace[i] = Sleep(2 * REQUEST_DELAY) =>
                     i > 1 /\ trace[i - 1].ev = "get"

\* The default retry count, two failures (one in transport, one by status)
\* and then a success: the third answer is returned.
C4_Witness ==
    /\ fn_done
    /\ fn_in.retries = MAX_RETRIES
    /\ fn_in.answers[1].status = "transport_error"
    /\ fn_in.answers[2].status = "http_error"
    /\ fn_in.answers[3].status = "ok"
    /\ fn_out.response = <<fn_in.answers[3]>>
    /\ Len(fn_out.trace) = 8

(***************************************************************************)
(* scripts/discover_tournaments.py: the remote table store (69-108).       *)
(* A table is a set of rows.  Every store call can fail (ok = FALSE): the  *)
(* code catches the exception, logs it and returns [], None or False.      *)
(***************************************************************************)

\* The rows r and d agree on every column named in fields.
SameOn(fields, r, d) == \A f \in fields : r[f] = d[f]

\* supabase_select with the filter event_id=eq.<event_id>.
supabase_select(rows, event_id, ok) ==
    IF ok THEN {r \in rows : r.event_id = event_id} ELSE {}

\* existing[0]: the store lists the rows in the order of their ids.
FirstRow(existing) == CHOOSE r \in existing : \A q \in existing : r.id <= q.id

\* supabase_upsert: a POST.  With on_conflict (a set of columns, empty for
\* None) the Prefer header asks the store to merge into the row that agrees
\* on those columns.  Without it the POST is a plain insert: the store gives
\* the row an id, or refuses it (an HTTP error status, so raise_for_status
\* raises) when a row agreeing on the columns of a unique constraint is
\* already there.  result is the row returned, or None (the empty sequence).
supabase_upsert(rows, data, on_conflict, unique, ok) ==
    IF ~ok THEN [rows |-> rows, result |-> <<>>]
    ELSE IF on_conflict # {}
    THEN [rows |-> {r \in rows : ~SameOn(on_conflict, r, data)} \cup {data},
          result |-> <<data>>]
    ELSE IF unique # {} /\ \E r \in rows : SameOn(unique, r, data)
    THEN [rows |-> rows, result |-> <<>>]
    ELSE LET row == ("id" :> (Cardinality(rows) + 1)) @@ data
         IN [rows |-> rows \cup {row}, result |-> <<row>>]

\* supabase_update: a PATCH of the rows whose event_id matches.
supabase_update(rows, data, event_id, ok) ==
    [rows |-> IF ok
              THEN {IF r.event_id = event_id
                    THEN [r EXCEPT !.state = data.state] ELSE r : r \in rows}
              ELSE rows,
     result |-> ok]

\* The unique constraint of the remote table of tournaments.
SourcesUnique == IF unique_event_id THEN {"event_id"} ELSE {}

\* save_tournament, 315-343 (the name, which the code passes through, is
\* left out).  uuid is the identifier returned, or None (the empty
\* sequence); path and written tell which write was issued and whether it
\* took effect.
save_tournament(rows, tournament, select_ok, write_ok) ==
    LET existing == supabase_select(rows, tournament.event_id, select_ok)
    IN IF existing # {}
       THEN LET u == supabase_update(rows, [state |-> tournament.state],
                                     tournament.event_id, write_ok)
            IN [rows |-> u.rows, uuid |-> <<FirstRow(existing).id>>,
                path |-> "update", written |-> u.result]
       ELSE LET ins == supabase_upsert(rows,
                           [event_id |-> tournament.event_id,
                            state |-> tournament.state,
                            provider |-> "gotsport"],
                           {}, SourcesUnique, write_ok)
            IN [rows |-> ins.rows,
                uuid |-> IF ins.result # <<>> THEN <<ins.result[1].id>> ELSE <<>>,
                path |-> "insert", written |-> ins.result # <<>>]

\* save_scrape_target, 346-361 (age_group and gender, which the code infers
\* from the division name and passes through, are left out).
save_scrape_target(rows, tournament_id, group, state, ok) ==
    LET r == supabase_upsert(rows,
                 [tournament_id |-> tournament_id,
                  event_id |-> group.event_id,
                  group_id |-> group.group_id,
                  url |-> group.url,
                  division_name |-> group.division_name,
                  state |-> state,
                  is_active |-> TRUE],
                 {"event_id", "group_id"}, {}, ok)
    IN [rows |-> r.rows, result |-> r.result # <<>>]

(***************************************************************************)
(* scripts/discover_tournaments.py: the listing and the schedule pages.    *)
(* A page body is the sequence of its matching links, in document order.   *)
(***************************************************************************)

TARGET_STATES ==
    {"TX", "CA", "FL", "VA", "GA", "NC", "PA", "NY", "NJ", "MD", "IL", "OH",
     "CO", "AZ", "WA", "MO", "KS"}

state_names ==
    ("Texas" :> "TX") @@ ("California" :> "CA") @@ ("Florida" :> "FL")
        @@ ("Virginia" :> "VA") @@ ("Georgia" :> "GA")
        @@ ("North Carolina" :> "NC") @@ ("Pennsylvania" :> "PA")
        @@ ("New York" :> "NY") @@ ("New Jersey" :> "NJ")
        @@ ("Maryland" :> "MD") @@ ("Illinois" :> "IL") @@ ("Ohio" :> "OH")
        @@ ("Colorado" :> "CO") @@ ("Arizona" :> "AZ")
        @@ ("Washington" :> "WA") @@ ("Missouri" :> "MO")
        @@ ("Kansas" :> "KS")

\* extract_state_from_location, 134-159.  A location text is given by what
\* the code finds in it: code, the two capitals the pattern
\* ",\s*([A-Z]{2})(?:\s|$|,)" matches first ("" when it matches nothing),
\* and name, the first of the full state names the text contains ("" when
\* it contains none).  The empty text has neither.
extract_state_from_location(location) ==
    IF location.code # "" /\ location.code \in TARGET_STATES
    THEN location.code
    ELSE IF location.name # "" THEN state_names[location.name]
    ELSE None

\* discover_tournaments, 189-218: the loop over the event links of one page.
\* A slip the uniqueness claim must notice: no identifier is skipped.
AlreadySeen_Never(id, seen) == FALSE

\* discover_tournaments, 195, and discover_tournament_groups, 259: the test
\* "if event_id in seen_event_ids" / "if group_id in seen_groups".
AlreadySeen(id, seen) == id \in seen

RECURSIVE event_links_loop(_, _, _, _)
event_links_loop(event_links, seen, found, page_count) ==
    IF event_links = <<>>
    THEN [seen_event_ids |-> seen, tournaments |-> found,
          page_count |-> page_count]
    ELSE LET link == Head(event_links)
         IN IF AlreadySeen(link.event_id, seen)
            THEN event_links_loop(Tail(event_links), seen, found, page_count)
            ELSE event_links_loop(Tail(event_links),
                     seen \cup {link.event_id},
                     Append(found,
                            [event_id |-> link.event_id,
                             state |-> extract_state_from_location(link.location)]),
                     page_count + 1)

\* discover_tournament_groups, 252-305: the loop over the group links.
RECURSIVE group_links_loop(_, _, _, _)
group_links_loop(group_links, event_id, seen_groups, groups) ==
    IF group_links = <<>> THEN groups
    ELSE LET link == Head(group_links)
         IN IF AlreadySeen(link.group_id, seen_groups)
            THEN group_links_loop(Tail(group_links), event_id, seen_groups, groups)
            ELSE group_links_loop(Tail(group_links), event_id,
                     seen_groups \cup {link.group_id},
                     Append(groups,
                            [event_id |-> event_id,
                             group_id |-> link.group_id,
                             url |-> <<event_id, link.group_id>>,
                             division_name |-> link.division_name]))

\* discover_tournament_groups, 231-308.
discover_tournament_groups(event_id, answers) ==
    LET response == make_request(answers, MAX_RETRIES).response
    IN IF response = <<>> THEN <<>>
       ELSE group_links_loop(response[1].body, event_id, {}, <<>>)

\* add_known_tournaments, 430-434.
known_tournaments ==
    <<[event_id |-> "43745", state |-> "FL"],
      [event_id |-> "33224", state |-> "FL"]>>

(***************************************************************************)
(* The pages and the store outcomes tried.                                 *)
(***************************************************************************)

\* The largest --pages value tried.
MaxPages == 3

\* A listing link to one of the known tournaments, its row naming Florida,
\* and a link to another event, its row ending in ", TX".
LinkKnown == [event_id |-> "43745", location |-> [code |-> "", name |-> "Florida"]]
LinkOther == [event_id |-> "50001", location |-> [code |-> "TX", name |-> ""]]

\* A link to an event whose row ends in ", ID": a two-letter code that is
\* not one of TARGET_STATES, in a text with no full state name.
LinkIdaho == [event_id |-> "50002", location |-> [code |-> "ID", name |-> ""]]

EventIds == {"43745", "33224", "50001", "50002"}

ListingBodies == {<<>>, <<LinkKnown>>, <<LinkOther, LinkKnown, LinkOther>>}

\* The listing pages tried in a run: the runs of one page are also tried
\* with the page that holds the link LinkIdaho.
ListingBodiesOf(pages) ==
    IF pages = 1 THEN ListingBodies \cup {<<LinkIdaho>>} ELSE ListingBodies

GroupA == [group_id |-> "101", division_name |-> "U12 Boys"]
GroupB == [group_id |-> "102", division_name |-> "2012 Girls"]

ScheduleBodies == {<<GroupA, GroupB, GroupA>>}

\* The site's answers to the attempts of one make_request call: the first
\* f - 1 attempts fail, the others succeed with the given body.
AnswersTo(bodies) ==
    {[k \in 1..MAX_RETRIES |->
         IF k < f
         THEN [status |-> IF k = 1 THEN "transport_error" ELSE "http_error",
               body |-> <<>>]
         ELSE [status |-> "ok", body |-> b]] :
        f \in {1, MAX_RETRIES, MAX_RETRIES + 1}, b \in bodies}

\* How the calls made for one tournament go: the select and the write of
\* save_tournament, the schedule page, and the groups whose upsert fails.
ProcessOutcomes ==
    [select_ok : BOOLEAN, write_ok : BOOLEAN,
     answers : AnswersTo(ScheduleBodies),
     failing : {{}, {"101"}, {"102"}}]

\* The most store calls and schedule fetches that fail in one run.
MaxFaults == 1

\* The store calls and schedule fetches that failed, by the log.
Faults(log) ==
    Cardinality({i \in 1..Len(log) : log[i].op = "save" /\ ~log[i].select_ok})
        + Cardinality({i \in 1..Len(log) : log[i].op = "save" /\ ~log[i].write_ok})
        + Cardinality({i \in 1..Len(log) : log[i].op = "schedule" /\ ~log[i].fetched})
        + Cardinality({i \in 1..Len(log) : log[i].op = "target" /\ ~log[i].ok})

\* The rows the remote table of tournaments holds when the run starts.
InitialSources ==
    {{}, {[id |-> 1, event_id |-> "43745", state |-> "FL", provider |-> "gotsport"]}}

\* Command lines: --known-only, or --pages with or without --states (an
\* absent --states is the empty sequence).
DiscArgsSet ==
    {[known_only |-> TRUE, states |-> <<>>, pages |-> MaxPages]}
        \cup [known_only : {FALSE}, states : {<<>>, <<{"FL"}>>},
              pages : 1..MaxPages]

InitDisc ==
    /\ FnIdle /\ ScrIdle
    /\ dargs \in DiscArgsSet /\ dpc = "main" /\ current_page = 0
    /\ seen_event_ids = {} /\ tournaments = <<>> /\ page_log = <<>>
    /\ t_idx = 0 /\ tournaments_saved = 0 /\ groups_saved = 0
    /\ tournament_sources \in InitialSources /\ scrape_targets = {}
    /\ unique_event_id \in BOOLEAN /\ disc_log = <<>>

(***************************************************************************)
(* scripts/discover_tournaments.py: the run.                               *)
(***************************************************************************)

\* __main__, 458-459: --known-only.
MainKnownOnly ==
    /\ dpc = "main" /\ dargs.known_only
    /\ dpc' = "known" /\ t_idx' = 1
    /\ UNCHANGED <<dargs, current_page, seen_event_ids, tournaments, page_log,
                   tournaments_saved, groups_saved, tournament_sources,
                   scrape_targets, unique_event_id, disc_log, fnVars, scrVars>>

\* __main__, 461, and run_discovery up to the call of discover_tournaments.
MainDiscovery ==
    /\ dpc = "main" /\ ~dargs.known_only
    /\ dpc' = "list" /\ current_page' = 1
    /\ UNCHANGED <<dargs, seen_event_ids, tournaments, page_log, t_idx,
                   tournaments_saved, groups_saved, tournament_sources,
                   scrape_targets, unique_event_id, disc_log, fnVars, scrVars>>

\* A slip the pagination claim must notice: the first page is treated like
\* the others.
StopsCrawl_AnyPage(page_count, page) == page_count = 0

\* discover_tournaments, 223: "if page_count == 0 and current_page > 1".
StopsCrawl(page_count, page) == page_count = 0 /\ page > 1

\* discover_tournaments, 174-225: one iteration of the loop over the pages.
\* The loop ends by a break or with the last page of range(1, max_pages + 1).
DiscoverPage ==
    /\ dpc = "list"
    /\ \E answers \in AnswersTo(ListingBodiesOf(dargs.pages)) :
        LET response == make_request(answers, MAX_RETRIES).response
        IN IF response = <<>>
           THEN /\ page_log' = Append(page_log,
                       [page |-> current_page, ok |-> FALSE, new |-> 0])
                /\ dpc' = "process" /\ t_idx' = 1
                /\ UNCHANGED <<current_page, seen_event_ids, tournaments>>
           ELSE LET c == event_links_loop(response[1].body, seen_event_ids,
                                          tournaments, 0)
                IN /\ seen_event_ids' = c.seen_event_ids
                   /\ tournaments' = c.tournaments
                   /\ page_log' = Append(page_log,
                          [page |-> current_page, ok |-> TRUE,
                           new |-> c.page_count])
                   /\ IF \/ StopsCrawl(c.page_count, current_page)
                         \/ current_page = dargs.pages
                      THEN /\ dpc' = "process" /\ t_idx' = 1
                           /\ UNCHANGED current_page
                      ELSE /\ current_page' = current_page + 1
                           /\ UNCHANGED <<dpc, t_idx>>
    /\ UNCHANGED <<dargs, tournaments_saved, groups_saved, tournament_sources,
                   scrape_targets, unique_event_id, disc_log, fnVars, scrVars>>

\* run_discovery, 376-377.
target_states == IF dargs.states = <<>> THEN TARGET_STATES ELSE dargs.states[1]

\* run_discovery, 388-391.
KeepsTournament(t) == t.state = None \/ t.state \in target_states

relevant_tournaments == SelectSeq(tournaments, KeepsTournament)

\* The loop over the groups of one tournament (run_discovery, 413-415;
\* add_known_tournaments, 442-443): the table, the number of targets saved
\* and the log after it.
RECURSIVE save_groups(_, _, _, _, _, _, _, _)
save_groups(groups, tournament_uuid, state, failing, by, rows, saved, log) ==
    IF groups = <<>> THEN [rows |-> rows, saved |-> saved, log |-> log]
    ELSE LET group == Head(groups)
             r == save_scrape_target(rows, tournament_uuid, group, state,
                                     group.group_id \notin failing)
         IN save_groups(Tail(groups), tournament_uuid, state, failing, by,
                r.rows, IF r.result THEN saved + 1 ELSE saved,
                Append(log, [op |-> "target", by |-> by,
                             event_id |-> group.event_id,
                             group_id |-> group.group_id,
                             ok |-> r.result]))

\* A slip the save-before-target claim must notice: the loop goes on to the
\* schedule page and the groups although save_tournament returned None.
ProcessTournament_NoSkip(tournament, o, by) ==
    LET sv == save_tournament(tournament_sources, tournament, o.select_ok,
                              o.write_ok)
        saved == [op |-> "save", by |-> by, event_id |-> tournament.event_id,
                  existed |-> \E r \in tournament_sources :
                                  r.event_id = tournament.event_id,
                  select_ok |-> o.select_ok, write_ok |-> o.write_ok,
                  path |-> sv.path, written |-> sv.written,
                  returned |-> sv.uuid # <<>>]
        groups == discover_tournament_groups(tournament.event_id, o.answers)
        g == save_groups(groups, IF sv.uuid = <<>> THEN 0 ELSE sv.uuid[1],
                 tournament.state, o.failing, by, scrape_targets, 0,
                 disc_log \o <<saved,
                     [op |-> "schedule", by |-> by,
                      event_id |-> tournament.event_id,
                      fetched |->
                          make_request(o.answers, MAX_RETRIES).response # <<>>]>>)
    IN [sources |-> sv.rows, uuid |-> sv.uuid, targets |-> g.rows,
        saved |-> g.saved, log |-> g.log]

\* What both loops do for one tournament (run_discovery, 403-415;
\* add_known_tournaments, 439-443): save_tournament, and when it returned
\* an identifier, discover_tournament_groups and the loop over the groups.
ProcessTournament(tournament, o, by) ==
    LET sv == save_tournament(tournament_sources, tournament, o.select_ok,
                              o.write_ok)
        saved == [op |-> "save", by |-> by, event_id |-> tournament.event_id,
                  existed |-> \E r \in tournament_sources :
                                  r.event_id = tournament.event_id,
                  select_ok |-> o.select_ok, write_ok |-> o.write_ok,
                  path |-> sv.path, written |-> sv.written,
                  returned |-> sv.uuid # <<>>]
    IN IF sv.uuid = <<>>
       THEN [sources |-> sv.rows, uuid |-> sv.uuid,
             targets |-> scrape_targets, saved |-> 0,
             log |-> Append(disc_log, saved)]
       ELSE LET groups == discover_tournament_groups(tournament.event_id,
                                                     o.answers)
                g == save_groups(groups, sv.uuid[1], tournament.state,
                         o.failing, by, scrape_targets, 0,
                         disc_log \o <<saved,
                             [op |-> "schedule", by |-> by,
                              event_id |-> tournament.event_id,
                              fetched |->
                                  make_request(o.answers, MAX_RETRIES).response # <<>>]>>)
            IN [sources |-> sv.rows, uuid |-> sv.uuid, targets |-> g.rows,
                saved |-> g.saved, log |-> g.log]

\* run_discovery, 399-415: one iteration of the loop over the relevant
\* tournaments.
RunDiscoveryStep ==
    /\ dpc = "process" /\ t_idx <= Len(relevant_tournaments)
    /\ \E o \in ProcessOutcomes :
        LET p == ProcessTournament(relevant_tournaments[t_idx], o, "run_discovery")
        IN /\ Faults(p.log) <= MaxFaults
           /\ tournament_sources' = p.sources
           /\ scrape_targets' = p.targets
           /\ disc_log' = p.log
           /\ tournaments_saved' =
                  IF p.uuid # <<>> THEN tournaments_saved + 1
                  ELSE tournaments_saved
           /\ groups_saved' = groups_saved + p.saved
    /\ t_idx' = t_idx + 1
    /\ UNCHANGED <<dargs, dpc, current_page, seen_event_ids, tournaments,
                   page_log, unique_event_id, fnVars, scrVars>>

\* run_discovery, 417-423, and __main__, 462.
RunDiscoveryReturn ==
    /\ dpc = "process" /\ t_idx > Len(relevant_tournaments)
    /\ dpc' = "known" /\ t_idx' = 1
    /\ UNCHANGED <<dargs, current_page, seen_event_ids, tournaments, page_log,
                   tournaments_saved, groups_saved, tournament_sources,
                   scrape_targets, unique_event_id, disc_log, fnVars, scrVars>>

\* add_known_tournaments, 438-443: one iteration of its loop.
AddKnownStep ==
    /\ dpc = "known" /\ t_idx <= Len(known_tournaments)
    /\ \E o \in ProcessOutcomes :
        LET p == ProcessTournament(known_tournaments[t_idx], o,
                                   "add_known_tournaments")
        IN /\ Faults(p.log) <= MaxFaults
           /\ tournament_sources' = p.sources
           /\ scrape_targets' = p.targets
           /\ disc_log' = p.log
    /\ t_idx' = t_idx + 1
    /\ UNCHANGED <<dargs, dpc, current_page, seen_event_ids, tournaments,
                   page_log, tournaments_saved, groups_saved, unique_event_id,
                   fnVars, scrVars>>

\* add_known_tournaments, 445: the end of the run.
AddKnownReturn ==
    /\ dpc = "known" /\ t_idx > Len(known_tournaments)
    /\ dpc' = "done"
    /\ UNCHANGED <<dargs, current_page, seen_event_ids, tournaments, page_log,
                   t_idx, tournaments_saved, groups_saved, tournament_sources,
                   scrape_targets, unique_event_id, disc_log, fnVars, scrVars>>

NextDisc ==
    \/ MainKnownOnly \/ MainDiscovery
    \/ DiscoverPage
    \/ RunDiscoveryStep \/ RunDiscoveryReturn
    \/ AddKnownStep \/ AddKnownReturn

SpecDisc == InitDisc /\ [][NextDisc]_vars

(***************************************************************************)
(* C6, C7, C8, C9                                                          *)
(***************************************************************************)

\* discover_tournaments has returned.
CrawlOver == dpc \in {"process", "known", "done"} /\ ~dargs.known_only

\* The i-th listing page requested could not be fetched or, being a page
\* after the first, yielded no new event identifier.
EndsCrawl(i) == ~page_log[i].ok \/ (page_log[i].new = 0 /\ i > 1)

\* C6, as the code has it: discover_tournaments requests the listing pages
\* 1, 2, 3, ... in that order, at most max_pages of them; it stops at the
\* first page that cannot be fetched or that, from page 2 on, yields no new
\* event identifier, and at no page before; a first page that is fetched and
\* yields no identifier does not stop it.
C6_StopsFromPageTwo ==
    /\ \A i \in 1..Len(page_log) : page_log[i].page = i
    /\ Len(page_log) <= dargs.pages
    /\ dpc = "list" => current_page = Len(page_log) + 1
    /\ \A i \in 1..Len(page_log) : EndsCrawl(i) => i = Len(page_log)
    /\ CrawlOver =>
          /\ Len(page_log) >= 1
          /\ EndsCrawl(Len(page_log)) \/ Len(page_log) = dargs.pages

\* With --pages 3, page 1 was fetched and held no event link, page 2 was
\* fetched all the same, held none either, and ended the crawl.
C6_Witness ==
    /\ CrawlOver /\ dargs.pages = 3
    /\ Len(page_log) = 2
    /\ page_log[1].ok /\ page_log[1].new = 0
    /\ page_log[2].ok /\ page_log[2].new = 0

\* C6, as stated: discover_tournaments fetches the listing pages in
\* increasing page order and stops at the first page that yields no new
\* event identifier: no page after such a page is ever fetched.
C6_StopsAtFirstBarrenPage ==
    /\ \A i \in 1..Len(page_log) : page_log[i].page = i
    /\ \A i \in 1..Len(page_log) : page_log[i].new = 0 => i = Len(page_log)

\* The places in disc_log of the save_tournament calls and of the schedule
\* page fetches for the event e.
SavesOf(e) ==
    {i \in 1..Len(disc_log) : disc_log[i].op = "save" /\ disc_log[i].event_id = e}

SchedulesOf(e) ==
    {i \in 1..Len(disc_log) :
        disc_log[i].op = "schedule" /\ disc_log[i].event_id = e}

\* C7: in a default run (run_discovery, then add_known_tournaments) no event
\* identifier is visited twice: for each event id save_tournament is called
\* at most once and the schedule page is fetched at most once.
C7_NoRevisit ==
    ~dargs.known_only =>
        \A e \in EventIds :
            /\ Cardinality(SavesOf(e)) <= 1
            /\ Cardinality(SchedulesOf(e)) <= 1

\* C8: whatever store calls fail, the table of tournaments holds at most one
\* row per event id, and a save_tournament call for an event id the table
\* already holds takes the update path, never the insert.
C8_Idempotent ==
    /\ \A e \in EventIds :
          Cardinality({r \in tournament_sources : r.event_id = e}) <= 1
    /\ \A i \in 1..Len(disc_log) :
          (disc_log[i].op = "save" /\ disc_log[i].existed) =>
              disc_log[i].path = "update"

\* The places in disc_log of what run_discovery did.
RunSaves ==
    {i \in 1..Len(disc_log) :
        disc_log[i].op = "save" /\ disc_log[i].by = "run_discovery"}

RunTargets ==
    {i \in 1..Len(disc_log) :
        disc_log[i].op = "target" /\ disc_log[i].by = "run_discovery"}

\* C9: a failing store call never stops run_discovery, which goes on to the
\* next tournament or group, and its counters count only the saves that
\* succeeded: tournaments_saved the tournaments whose write took effect,
\* groups_saved the scrape targets whose upsert took effect.
C9_CountsSuccesses ==
    /\ tournaments_saved = Cardinality({i \in RunSaves : disc_log[i].written})
    /\ groups_saved = Cardinality({i \in RunTargets : disc_log[i].ok})
    /\ CrawlOver /\ dpc # "process" =>
          Cardinality(RunSaves) = Len(relevant_tournaments)

(***************************************************************************)
(* C11: the exit code of the scraper's main                                *)
(***************************************************************************)

\* main() is over: it has returned, or an exception has left it.
MainOver == pc \in {"done", "crashed"}

\* C11: when main is over, the exit code is 1 exactly when the accumulator
\* is empty after all scraping steps and 0 otherwise; when the accumulator
\* is empty none of the output files is written.
C11_ExitCode ==
    MainOver =>
        IF all_teams = <<>>
        THEN exit_code = "1" /\ files.written = {}
        ELSE exit_code = "0"

(***************************************************************************)
(* The table parsers, cell by cell (heartland_scraper_v4.py 221-277 and    *)
(* 314-398, heartland_scraper.py 197-263).  A cell text is a sequence of   *)
(* characters, a row the sequence of its cell texts.                        *)
(***************************************************************************)

\* re.sub(r'[^\d-]', '', str(val)): the digits and minus signs of val, in
\* order.
DigitsAndMinus(val) == SelectSeq(val, LAMBDA c : IsDigit(c) \/ c = "-")

\* int(val) of what is left: the integer, or ValueError.
IntOf(val) == IF PyIntOk(val) THEN Returned(PyInt(val)) ELSE Raised("ValueError")

\* parse_int of the archive parser (v4 254-256, v1 231-233):
\* "return int(val) if val else 0".
parse_int(val) ==
    LET v == DigitsAndMinus(val) IN IF v # <<>> THEN IntOf(v) ELSE Returned(0)

\* parse_int of the live parser (v4 364-366):
\* "return int(val) if val and val != '-' else 0".
parse_int_cgi(val) ==
    LET v == DigitsAndMinus(val)
    IN IF v # <<>> /\ v # <<"-">> THEN IntOf(v) ELSE Returned(0)

(***************************************************************************)
(* SpecCoerce: each parse_int called once on every cell text of up to      *)
(* MaxCellLen characters.                                                   *)
(***************************************************************************)

MaxCellLen == 3

CellChars == {"0", "1", "2", "-", "*"}

CellTexts == UNION {[1..n -> CellChars] : n \in 0..MaxCellLen}

CoerceInputs == [parser : {"archive", "live"}, val : CellTexts]

InitCoerce ==
    /\ fn_in \in CoerceInputs /\ fn_out = None /\ fn_done = FALSE
    /\ ScrIdle /\ DiscIdle

CallParseInt ==
    /\ ~fn_done
    /\ fn_out' = IF fn_in.parser = "archive" THEN parse_int(fn_in.val)
                 ELSE parse_int_cgi(fn_in.val)
    /\ fn_done' = TRUE
    /\ UNCHANGED <<fn_in, scrVars, discVars>>

NextCoerce == CallParseInt

SpecCoerce == InitCoerce /\ [][NextCoerce]_vars

\* What is left of a cell text once every character that is neither a digit
\* nor a minus sign is removed.
RECURSIVE Remainder(_)
Remainder(val) ==
    IF val = <<>> THEN <<>>
    ELSE IF Head(val) \in {"0", "1", "2", "3", "4", "5", "6", "7", "8", "9", "-"}
    THEN <<Head(val)>> \o Remainder(Tail(val))
    ELSE Remainder(Tail(val))

\* The remainder is the numeral of an integer: digits, a minus sign before
\* them at most.
IsNumeral(s) ==
    /\ s # <<>>
    /\ \A i \in 1..Len(s) : IsDigit(s[i]) \/ (i = 1 /\ s[i] = "-" /\ Len(s) > 1)

\* C12: numeric coercion, in the archive parser and in the live parser
\* alike: every character of the cell that is not a digit or a minus sign is
\* removed and the result is the integer value of what remains, 0 when
\* nothing remains; the cell "12*" gives 12, the cell "-" gives 0 and the
\* empty cell gives 0.
C12_Coercion ==
    fn_done =>
        /\ Remainder(fn_in.val) = <<>> => fn_out = Returned(0)
        /\ IsNumeral(Remainder(fn_in.val)) =>
              fn_out = Returned(PyInt(Remainder(fn_in.val)))
        /\ fn_in.val = <<"1", "2", "*">> => fn_out = Returned(12)
        /\ fn_in.val = <<"-">> => fn_out = Returned(0)

(***************************************************************************)
(* String operations the row loops use                                     *)
(***************************************************************************)

\* The whitespace characters of the model: str.strip(), str.split() and the
\* pattern \s treat them alike; the pattern "." matches a space and not a
\* line break.
Whitespace == {" ", "\n"}

UpperCase == <<"A", "B", "C", "D", "E", "F", "G", "H", "I", "J", "K", "L", "M", "N", "O", "P", "Q", "R", "S", "T", "U", "V", "W", "X", "Y", "Z">>
LowerCase == <<"a", "b", "c", "d", "e", "f", "g", "h", "i", "j", "k", "l", "m", "n", "o", "p", "q", "r", "s", "t", "u", "v", "w", "x", "y", "z">>

\* [0-9A-Za-z]
IsAlnum(c) == IsDigit(c) \/ \E i \in 1..26 : UpperCase[i] = c \/ LowerCase[i] = c

\* str.lower()
PyLower(s) ==
    [i \in 1..Len(s) |->
        IF \E k \in 1..26 : UpperCase[k] = s[i]
        THEN LowerCase[CHOOSE k \in 1..26 : UpperCase[k] = s[i]]
        ELSE s[i]]

\* "sub in s"
Contains(s, sub) ==
    \E i \in 0..(Len(s) - Len(sub)) : SubSeq(s, i + 1, i + Len(sub)) = sub

\* str.strip(), which cell.get_text(strip=True) applies to the text of a
\* cell.
PyStrip(s) ==
    LET inner == {i \in 1..Len(s) : s[i] \notin Whitespace}
    IN IF inner = {} THEN <<>>
       ELSE SubSeq(s, CHOOSE i \in inner : \A j \in inner : i <= j,
                      CHOOSE i \in inner : \A j \in inner : i >= j)

\* str.split(): the words of s.
RECURSIVE PyWords(_)
PyWords(s) ==
    IF s = <<>> THEN <<>>
    ELSE IF Head(s) \in Whitespace THEN PyWords(Tail(s))
    ELSE LET k == CHOOSE i \in 1..Len(s) :
                      /\ \A j \in 1..i : s[j] \notin Whitespace
                      /\ i = Len(s) \/ s[i + 1] \in Whitespace
         IN <<SubSeq(s, 1, k)>> \o PyWords(SubSeq(s, k + 1, Len(s)))

\* ' '.join(words)
RECURSIVE PyJoin(_)
PyJoin(words) ==
    IF words = <<>> THEN <<>>
    ELSE IF Len(words) = 1 THEN words[1]
    ELSE words[1] \o <<" ">> \o PyJoin(Tail(words))

\* _normalize_team_name, 176-178.
_normalize_team_name(name) == PyStrip(PyJoin(PyWords(name)))

(***************************************************************************)
(* One row of a standings table                                            *)
(***************************************************************************)

\* "if len(cells) < 8" (archive, 229), "if len(cells) < 6" (live, 337).
MinCells(parser) == IF parser = "archive" THEN 8 ELSE 6

\* A slip the end-to-end claim must notice: no row is taken for a header.
IsHeaderRow_Never(parser, first_cell) == FALSE

\* The header tests on the lower-cased first cell: 238-241 in the archive
\* parser (a token list and three substrings), 346-348 in the live parser
\* (six substrings, the empty text and the dash).
IsHeaderRow(parser, first_cell) ==
    IF parser = "archive"
    THEN \/ first_cell \in {<<"#">>, <<"t", "e", "a", "m">>, <<"n", "u", "m", "b", "e", "r">>, <<>>}
         \/ Contains(first_cell, <<"s", "u", "b", "d", "i", "v", "i", "s", "i", "o", "n">>)
         \/ Contains(first_cell, <<"w", "i", "n">>)
         \/ Contains(first_cell, <<"l", "o", "s", "e">>)
    ELSE \/ \E header \in {<<"t", "e", "a", "m">>, <<"w", "i", "n">>, <<"l", "o", "s", "e">>, <<"t", "i", "e">>, <<"#">>,
                           <<"s", "u", "b", "d", "i", "v", "i", "s", "i", "o", "n">>} : Contains(first_cell, header)
         \/ first_cell = <<>>
         \/ first_cell = <<"-">>

\* re.match(r'^([0-9A-Za-z]{4})\s+(.+)$', team_info): the places where the
\* whitespace run \s+ can end so that the rest of the text, without a line
\* break in it, reaches the end ($ also stands before a final line break).
TeamNumMatchEnds(team_info) ==
    LET n == Len(team_info)
        m == IF n > 0 /\ team_info[n] = "\n" THEN n - 1 ELSE n
    IN {k \in 5..(m - 1) :
           /\ \A i \in 1..4 : IsAlnum(team_info[i])
           /\ \A i \in 5..k : team_info[i] \in Whitespace
           /\ \A i \in (k + 1)..m : team_info[i] # "\n"}

\* 242-249 (archive), 350-359 (live): team_number and team_name from the
\* first cell.  \s+ is greedy: the match found has the longest whitespace
\* run.
TeamNumberAndName(team_info) ==
    LET ends == TeamNumMatchEnds(team_info)
        n == Len(team_info)
        m == IF n > 0 /\ team_info[n] = "\n" THEN n - 1 ELSE n
    IN IF ends # {}
       THEN LET k == CHOOSE e \in ends : \A o \in ends : o <= e
            IN [team_number |-> SubSeq(team_info, 1, 4),
                team_name |-> _normalize_team_name(SubSeq(team_info, k + 1, m))]
       ELSE [team_number |-> <<>>, team_name |-> _normalize_team_name(team_info)]

\* A slip the row-filter claim must notice: only the empty name is dropped.
DropsName_EmptyOnly(parser, team_name) == team_name = <<>>

\* "if not team_name or team_name == '-'" (archive, 251), "if not team_name
\* or len(team_name) < 3" (live, 361).
DropsName(parser, team_name) ==
    IF parser = "archive"
    THEN team_name = <<>> \/ team_name = <<"-">>
    ELSE team_name = <<>> \/ Len(team_name) < 3

\* A slip the column-mapping claim must notice: goals-for and goals-against
\* read each other's column.
Column_GoalsSwapped ==
    [wins |-> 2, losses |-> 3, ties |-> 4, goals_for |-> 6,
     goals_against |-> 5, red_cards |-> 7, points |-> 8]

\* 261-273 (archive), 370-390 (live): the cell each number is read from,
\* counting the cells from 1.
Column ==
    [wins |-> 2, losses |-> 3, ties |-> 4, goals_for |-> 5,
     goals_against |-> 6, red_cards |-> 7, points |-> 8]

NumberFields ==
    {"wins", "losses", "ties", "goals_for", "goals_against", "red_cards", "points"}

\* The value read for one number.  The live parser guards every read with
\* "if len(cell_texts) > k else 0"; the archive parser guards red_cards and
\* points only and indexes the others directly.
CellNumber(parser, cell_texts, field) ==
    LET col == Column[field] IN
    IF parser = "archive"
    THEN IF col <= Len(cell_texts) THEN parse_int(cell_texts[col])
         ELSE IF field \in {"red_cards", "points"} THEN Returned(0)
         ELSE Raised("IndexError")
    ELSE IF col <= Len(cell_texts) THEN parse_int_cgi(cell_texts[col])
         ELSE Returned(0)

\* A slip the row-failure claim must notice: the row loop has no except
\* clause.
Caught_Nothing(e) == FALSE

\* "except (ValueError, IndexError): continue" (274-275 archive, 395-396
\* live).
Caught(e) == e \in {"ValueError", "IndexError"}

\* One iteration of the row loop (227-275 archive, 335-396 live): no record
\* or one, or an exception that leaves the loop.  cells are the texts of the
\* row's td/th elements as the page holds them.  The arguments of
\* TeamStanding(...) are evaluated in column order, so the exception raised
\* is that of the first failing column.
parse_row(parser, cells, season, division, gender, age_group, subdivision) ==
    LET cell_texts == [i \in 1..Len(cells) |-> PyStrip(cells[i])]
        first_cell == PyLower(cell_texts[1])
        info == TeamNumberAndName(cell_texts[1])
        num(field) == CellNumber(parser, cell_texts, field)
        failing == {field \in NumberFields : num(field).raised}
        first_failing ==
            CHOOSE f \in failing : \A g \in failing : Column[f] <= Column[g]
    IN IF Len(cells) < MinCells(parser) THEN Returned(<<>>)
       ELSE IF IsHeaderRow(parser, first_cell) THEN Returned(<<>>)
       ELSE IF DropsName(parser, info.team_name) THEN Returned(<<>>)
       ELSE IF failing # {}
       THEN IF Caught(num(first_failing).value) THEN Returned(<<>>)
            ELSE Raised(num(first_failing).value)
       ELSE Returned(<<TeamStanding(
                  [team_number |-> info.team_number,
                   team_name |-> info.team_name,
                   wins |-> num("wins").value,
                   losses |-> num("losses").value,
                   ties |-> num("ties").value,
                   goals_for |-> num("goals_for").value,
                   goals_against |-> num("goals_against").value,
                   red_cards |-> num("red_cards").value,
                   points |-> num("points").value],
                  season, division, age_group, subdivision, gender)>>)

\* The row loop over rows i..Len(rows): the records of the rows, in order,
\* unless an exception leaves the loop.
RECURSIVE parse_rows(_, _, _, _, _, _, _, _)
parse_rows(parser, rows, i, season, division, gender, age_group, subdivision) ==
    IF i > Len(rows) THEN Returned(<<>>)
    ELSE LET one == parse_row(parser, rows[i], season, division, gender,
                              age_group, subdivision)
             others == parse_rows(parser, rows, i + 1, season, division, gender,
                                  age_group, subdivision)
         IN IF one.raised THEN one
            ELSE IF others.raised THEN others
            ELSE Returned(one.value \o others.value)

\* _parse_standings_table, 221-277: rows are the table's tr elements.
_parse_standings_table(rows, season, division, gender, age_group, subdivision) ==
    parse_rows("archive", rows, 1, season, division, gender, age_group,
               subdivision)

\* _parse_cgi_response, 314-398: division, age group and subdivision name
\* come from the form parameters; every row of every table of the page is
\* read in document order.
_parse_cgi_response(tables, season, gender, level, age, subdivision) ==
    LET division == IF level = "Premier"
                    THEN (IF gender = "Boys" THEN "boys_prem" ELSE "girls_prem")
                    ELSE (IF gender = "Boys" THEN "boys_rec" ELSE "girls_rec")
        subdivision_name ==
            <<age, " ", gender, " ", level, " Subdivision ", subdivision>>
    IN parse_rows("live", FlattenSeq(tables), 1, season, division, gender,
                  extract_age_group(age), subdivision_name)

(***************************************************************************)
(* SpecRow: one row handed to the row loop of either parser.  The first    *)
(* cell is one of FirstCells; the cell in column k holds the digit k, and  *)
(* at most one cell holds one of OddCells instead, so that every column    *)
(* can be told from the others.                                             *)
(***************************************************************************)

MaxCells == 9

FirstCells ==
    {<<"A", "1", "2", "3", " ", "F", "C", " ", "D", "a", "l", "l", "a", "s">>, <<"F", "C", " ", "D", "a", "l", "l", "a", "s">>, <<" ", "A", "1", "2", "3", " ", " ", "F", "C", " ", " ", " ", "D", "a", "l", "l", "a", "s", " ">>,
     <<"A", "1", "2", "3", " ", "F", "C">> \o <<"\n">> \o <<"D", "a", "l", "l", "a", "s">>,
     <<"A", "1", "2", " ", "F", "C", " ", "D", "a", "l", "l", "a", "s">>, <<"A", "1", "2", "3", "4", " ", "F", "C">>, <<"A", "B", "-", "3", " ", "F", "C", " ", "D", "a", "l", "l", "a", "s">>, <<"A", "1", "2", "3", " ", "-">>,
     <<"T", "e", "a", "m">>, <<"N", "u", "m", "b", "e", "r">>, <<"#">>, <<>>, <<"-">>, <<"A", "b">>,
     <<"W", "i", "n", "f", "i", "e", "l", "d", " ", "F", "C">>, <<"T", "i", "e", " ", "F", "C">>, <<"U", "1", "2", " ", "S", "u", "b", "d", "i", "v", "i", "s", "i", "o", "n", " ", "1">>}

OddCells == {<<"1", "2", "*">>, <<"-">>, <<"-", "5">>, <<"1", "-", "2">>, <<>>, <<"W">>}

PlainRow(first, n) == [k \in 1..n |-> IF k = 1 THEN first ELSE NatStr(k)]

RowsOf(n) ==
    UNION {{PlainRow(first, n)}
               \cup {[PlainRow(first, n) EXCEPT ![p] = v] :
                        p \in 2..n, v \in OddCells} : first \in FirstCells}

RowInputs ==
    [parser : {"archive", "live"}, cells : UNION {RowsOf(n) : n \in 5..MaxCells}]

InitRow ==
    /\ fn_in \in RowInputs /\ fn_out = None /\ fn_done = FALSE
    /\ ScrIdle /\ DiscIdle

CallParseRow ==
    /\ ~fn_done
    /\ fn_out' = parse_row(fn_in.parser, fn_in.cells, S2024_fall, "boys_prem",
                           "Boys", U12, <<"U", "1", "2", " ", "P", "r", "e", "m", "i", "e", "r", " ", "S", "u", "b", "d", "i", "v", "i", "s", "i", "o", "n", " ", "3">>)
    /\ fn_done' = TRUE
    /\ UNCHANGED <<fn_in, scrVars, discVars>>

NextRow == CallParseRow

SpecRow == InitRow /\ [][NextRow]_vars

\* C13: every TeamStanding record a parser emits (and so every record ever
\* placed in the accumulator) has non-negative wins, losses, ties,
\* goals-for, goals-against, red-cards and points, whatever the page holds.
C13_NonNegative ==
    fn_done =>
        \A i \in 1..Len(fn_out.value) :
            \A field \in NumberFields : fn_out.value[i][field] >= 0

(***************************************************************************)
(* SpecTable: the tables of one page, up to two of them with up to         *)
(* MaxRows rows each, handed to either parser.  The archive parser reads   *)
(* them one after the other in one section context.                        *)
(***************************************************************************)

MaxRows == 2

HeaderCells ==
    <<<<"T", "e", "a", "m">>, <<"W">>, <<"L">>, <<"T">>, <<"G", "F">>, <<"G", "A">>, <<"R", "C">>, <<"P", "t", "s">>>>

\* Two data rows that parse, a header row, and a data row one of whose
\* numbers ("1-2") is not an integer once stripped.
RowSamples ==
    {PlainRow(<<"A", "1", "2", "3", " ", "F", "C", " ", "D", "a", "l", "l", "a", "s">>, 8),
     [PlainRow(<<"S", "p", "o", "r", "t", "i", "n", "g", " ", "B", "l", "u", "e">>, 8) EXCEPT ![3] = <<"1", "2", "*">>],
     HeaderCells,
     [PlainRow(<<"R", "u", "s", "h", " ", "2", "0", "1", "2">>, 8) EXCEPT ![4] = <<"1", "-", "2">>]}

TableSamples == UNION {[1..n -> RowSamples] : n \in 0..MaxRows}

TableInputs ==
    [parser : {"archive", "live"},
     tables : UNION {[1..n -> TableSamples] : n \in 1..2}]

InitTable ==
    /\ fn_in \in TableInputs /\ fn_out = None /\ fn_done = FALSE
    /\ ScrIdle /\ DiscIdle

\* The records of the page's tables: the archive parser extends its list
\* with the records of each table (219), the live parser reads every table
\* in one loop.
ParseTables(parser, tables) ==
    IF parser = "archive"
    THEN parse_rows("archive", FlattenSeq(tables), 1, S2024_fall, "boys_prem",
                    "Boys", U12, <<"U", "1", "2", " ", "P", "r", "e", "m", "i", "e", "r", " ", "S", "u", "b", "d", "i", "v", "i", "s", "i", "o", "n", " ", "3">>)
    ELSE _parse_cgi_response(tables, S2025_fall, "Boys", "Premier",
                             <<"U", "-", "1", "2">>, <<"3">>)

CallParseTables ==
    /\ ~fn_done
    /\ fn_out' = ParseTables(fn_in.parser, fn_in.tables)
    /\ fn_done' = TRUE
    /\ UNCHANGED <<fn_in, scrVars, discVars>>

NextTable == CallParseTables

SpecTable == InitTable /\ [][NextTable]_vars

\* The row has a numeric cell, in one of the columns its parser reads,
\* whose stripped text is not a valid integer.
FailsToParse(parser, cells) ==
    \E col \in 2..8 :
        /\ col <= Len(cells)
        /\ Remainder(PyStrip(cells[col])) # <<>>
        /\ ~IsNumeral(Remainder(PyStrip(cells[col])))
        /\ parser = "live" => Remainder(PyStrip(cells[col])) # <<"-">>

\* The tables without row r of table t.
WithoutRow(tables, t, r) ==
    [tables EXCEPT ![t] =
        [i \in 1..(Len(tables[t]) - 1) |->
            IF i < r THEN tables[t][i] ELSE tables[t][i + 1]]]

\* C14: a parse failure on one table row (a numeric cell whose stripped
\* text is not a valid integer, such as "1-2") drops that row only: no
\* record is emitted for it, no error propagates, and every other row of
\* the same table and page is parsed as if the failing row were absent.
C14_RowFailure ==
    fn_done =>
        /\ ~fn_out.raised
        /\ \A t \in 1..Len(fn_in.tables) : \A r \in 1..Len(fn_in.tables[t]) :
              FailsToParse(fn_in.parser, fn_in.tables[t][r]) =>
                  fn_out = ParseTables(fn_in.parser,
                                       WithoutRow(fn_in.tables, t, r))

\* A table whose first row fails to parse and whose second row is a data
\* row, followed by a second table: the records of the page are those of
\* the rows that parse.
C14_Witness ==
    /\ fn_done
    /\ Len(fn_in.tables) = 2
    /\ Len(fn_in.tables[1]) = 2
    /\ FailsToParse(fn_in.parser, fn_in.tables[1][1])
    /\ ~FailsToParse(fn_in.parser, fn_in.tables[1][2])
    /\ ~fn_out.raised
    /\ Len(fn_out.value) = 3
    /\ fn_out.value[1].team_name = <<"F", "C", " ", "D", "a", "l", "l", "a", "s">>


\* The text of the row's first cell, and the place where the whitespace
\* after its first four characters ends.
FirstCellText == PyStrip(fn_in.cells[1])

HasCodeShape(c) ==
    /\ Len(c) >= 6
    /\ \A i \in 1..4 : IsAlnum(c[i])
    /\ c[5] \in Whitespace
    /\ \E i \in 6..Len(c) : c[i] \notin Whitespace

AfterCode(c) ==
    SubSeq(c, CHOOSE i \in 6..Len(c) :
                  c[i] \notin Whitespace /\ \A j \in 5..(i - 1) : c[j] \in Whitespace,
           Len(c))

\* C15: first-cell decomposition, on every row a record is emitted for: if
\* the first cell consists of exactly 4 alphanumeric characters, then
\* whitespace, then a non-empty remainder, the team code is that prefix and
\* the name is the remainder with whitespace collapsed; otherwise the team
\* code is empty and the name is the whole cell with whitespace collapsed.
C15_Decomposition ==
    (fn_done /\ ~fn_out.raised /\ fn_out.value # <<>>) =>
        IF HasCodeShape(FirstCellText)
        THEN /\ fn_out.value[1].team_number = SubSeq(FirstCellText, 1, 4)
             /\ fn_out.value[1].team_name = PyJoin(PyWords(AfterCode(FirstCellText)))
        ELSE /\ fn_out.value[1].team_number = <<>>
             /\ fn_out.value[1].team_name = PyJoin(PyWords(FirstCellText))


\* C16: row filtering in both parsers: a row with fewer than the minimum
\* cell count (8 in the archive parser, 6 in the live parser) yields no
\* record; a row whose case-folded first cell is a blocklisted header token
\* or contains "win", "lose" or "subdivision" yields no record; and no
\* emitted record has an empty name or a name that is a single dash.
C16_RowFilter ==
    fn_done =>
        /\ ~fn_out.raised
        /\ Len(fn_in.cells) < (IF fn_in.parser = "archive" THEN 8 ELSE 6) =>
              fn_out.value = <<>>
        /\ (\/ PyLower(FirstCellText) \in {<<"#">>, <<"t", "e", "a", "m">>, <<>>}
            \/ fn_in.parser = "archive" /\ PyLower(FirstCellText) = <<"n", "u", "m", "b", "e", "r">>
            \/ fn_in.parser = "live" /\ PyLower(FirstCellText) \in {<<"t", "i", "e">>, <<"-">>}
            \/ \E token \in {<<"w", "i", "n">>, <<"l", "o", "s", "e">>, <<"s", "u", "b", "d", "i", "v", "i", "s", "i", "o", "n">>} :
                   Contains(PyLower(FirstCellText), token)) =>
              fn_out.value = <<>>
        /\ \A i \in 1..Len(fn_out.value) :
              fn_out.value[i].team_name \notin {<<>>, <<"-">>}

\* An archive row of 8 cells whose numbers all parse and whose first cell
\* is a team code followed by a single dash: the name left is the dash and
\* the row gives no record.
C16_Witness ==
    /\ fn_done
    /\ fn_in.parser = "archive"
    /\ fn_in.cells = PlainRow(<<"A", "1", "2", "3", " ", "-">>, 8)
    /\ TeamNumberAndName(FirstCellText).team_name = <<"-">>
    /\ fn_out = Returned(<<>>)

\* The integer a numeric cell stands for: the value of the digits and the
\* minus sign it holds, 0 when it holds none (and for the lone dash, which
\* only the live parser lets through).
CellValue(cell) ==
    IF Remainder(PyStrip(cell)) \in {<<>>, <<"-">>} THEN 0
    ELSE PyInt(Remainder(PyStrip(cell)))

FieldOrder ==
    <<"wins", "losses", "ties", "goals_for", "goals_against", "red_cards", "points">>

\* C17: column mapping is positional and fixed in both parsers: cells 2 to
\* 8 of a row map to wins, losses, ties, goals-for, goals-against,
\* red-cards, points in that order, and a field whose column lies beyond
\* the row's cell count is 0 (a live row with 6 cells has red-cards 0 and
\* points 0).
C17_ColumnMapping ==
    (fn_done /\ ~fn_out.raised /\ fn_out.value # <<>>) =>
        /\ Len(fn_out.value) = 1
        /\ \A k \in 1..7 :
              fn_out.value[1][FieldOrder[k]] =
                  IF k + 1 <= Len(fn_in.cells) THEN CellValue(fn_in.cells[k + 1])
                  ELSE 0

\* A live row with 6 cells has given a record: its first five numbers are
\* those of cells 2 to 6, red-cards and points are 0.
C17_Witness ==
    /\ fn_done
    /\ fn_in.parser = "live"
    /\ fn_in.cells = PlainRow(<<"F", "C", " ", "D", "a", "l", "l", "a", "s">>, 6)
    /\ Len(fn_out.value) = 1
    /\ fn_out.value[1].wins = 2
    /\ fn_out.value[1].goals_for = 5
    /\ fn_out.value[1].goals_against = 6
    /\ fn_out.value[1].red_cards = 0
    /\ fn_out.value[1].points = 0


(***************************************************************************)
(* The archive page parser (_parse_archive_html, v4 190-219;               *)
(* _parse_html_tables, v1 163-265).  A page is the list that               *)
(* soup.find_all(['h2', 'h3', 'h4', 'table', 'p', 'b', 'strong']) returns, *)
(* in document order: each element has its tag, its stripped text and, for *)
(* a table, its rows.                                                       *)
(***************************************************************************)

HeadingTags == {"h2", "h3", "h4", "p", "b", "strong"}

\* A slip the section claim must notice: the age pattern alone makes a
\* heading a section marker.
IsSectionHeading_AgeOnly(text) == \E i \in 1..Len(text) : AgeMatchAt(text, i)

\* 205-206: "age_match and ('Subdivision' in text or 'Division' in text or
\* 'Premier' in text or 'Recreational' in text)"; age_match is
\* re.search(r'U-?(\d+)', text, re.IGNORECASE).
IsSectionHeading(text) ==
    /\ \E i \in 1..Len(text) : AgeMatchAt(text, i)
    /\ \/ Contains(text, <<"S", "u", "b", "d", "i", "v", "i", "s", "i", "o", "n">>)
       \/ Contains(text, <<"D", "i", "v", "i", "s", "i", "o", "n">>)
       \/ Contains(text, <<"P", "r", "e", "m", "i", "e", "r">>)
       \/ Contains(text, <<"R", "e", "c", "r", "e", "a", "t", "i", "o", "n", "a", "l">>)

\* The loop over the elements from the i-th on, 199-217, with the section
\* context it has reached.
RECURSIVE parse_elements(_, _, _, _, _, _, _)
parse_elements(elements, i, current_age_group, current_subdivision, season, division, gender) ==
    IF i > Len(elements) THEN Returned(<<>>)
    ELSE IF elements[i].tag \in HeadingTags /\ IsSectionHeading(elements[i].text)
    THEN parse_elements(elements, i + 1, extract_age_group(elements[i].text),
                        elements[i].text, season, division, gender)
    ELSE IF elements[i].tag = "table"
    THEN LET found == _parse_standings_table(elements[i].rows, season, division,
                          gender, current_age_group, current_subdivision)
             others == parse_elements(elements, i + 1, current_age_group,
                          current_subdivision, season, division, gender)
         IN IF found.raised THEN found
            ELSE IF others.raised THEN others
            ELSE Returned(found.value \o others.value)
    ELSE parse_elements(elements, i + 1, current_age_group,
                        current_subdivision, season, division, gender)

\* _parse_archive_html(html, season, division)
_parse_archive_html(elements, season, division) ==
    parse_elements(elements, 1, UNKNOWN, UNKNOWN, season, division,
                   parse_gender(division))

(***************************************************************************)
(* SpecPage: _parse_archive_html on every page of up to MaxElements        *)
(* elements: headings that qualify as section markers, headings that lack  *)
(* the age pattern or the literal, and two tables.                         *)
(***************************************************************************)

MaxElements == 3

Heading(tag, text) == [tag |-> tag, text |-> text, rows |-> <<>>]
Table(rows) == [tag |-> "table", text |-> <<>>, rows |-> rows]

RowDallas == PlainRow(<<"A", "1", "2", "3", " ", "F", "C", " ", "D", "a", "l", "l", "a", "s">>, 8)
RowBlue == [PlainRow(<<"S", "p", "o", "r", "t", "i", "n", "g", " ", "B", "l", "u", "e">>, 8) EXCEPT ![3] = <<"1", "2", "*">>]

PageElements ==
    {Heading("h3", <<"U", "1", "2", " ", "P", "r", "e", "m", "i", "e", "r", " ", "S", "u", "b", "d", "i", "v", "i", "s", "i", "o", "n", " ", "3">>),
     Heading("b", <<"U", "-", "1", "3", " ", "D", "i", "v", "i", "s", "i", "o", "n", " ", "1">>),
     Heading("p", <<"u", "1", "4", " ", "R", "e", "c", "r", "e", "a", "t", "i", "o", "n", "a", "l">>),
     Heading("h2", <<"P", "r", "e", "m", "i", "e", "r", " ", "L", "e", "a", "g", "u", "e">>),
     Heading("h4", <<"U", "1", "2", " ", "S", "t", "a", "n", "d", "i", "n", "g", "s">>),
     Heading("strong", <<"U", "1", "2", " ", "p", "r", "e", "m", "i", "e", "r">>),
     Table(<<RowBlue>>),
     Table(<<HeaderCells, RowDallas, RowBlue>>)}

PageInputs == UNION {[1..n -> PageElements] : n \in 0..MaxElements}

InitPage ==
    /\ fn_in \in PageInputs /\ fn_out = None /\ fn_done = FALSE
    /\ ScrIdle /\ DiscIdle

CallParseArchiveHtml ==
    /\ ~fn_done
    /\ fn_out' = _parse_archive_html(fn_in, S2024_fall, "boys_prem")
    /\ fn_done' = TRUE
    /\ UNCHANGED <<fn_in, scrVars, discVars>>

NextPage == CallParseArchiveHtml

SpecPage == InitPage /\ [][NextPage]_vars

\* The text contains an age-group pattern: one of the letters us, an
\* optional dash, digits.
HasAgePattern(text, us) ==
    \E i \in 1..Len(text) :
        /\ text[i] \in us
        /\ \/ i + 1 <= Len(text) /\ IsDigit(text[i + 1])
           \/ i + 2 <= Len(text) /\ text[i + 1] = "-" /\ IsDigit(text[i + 2])

\* The heading qualifies: the age-group pattern and one of the four
\* literal substrings.
Qualifies(text, us) ==
    /\ HasAgePattern(text, us)
    /\ \E literal \in {<<"S", "u", "b", "d", "i", "v", "i", "s", "i", "o", "n">>, <<"D", "i", "v", "i", "s", "i", "o", "n">>, <<"P", "r", "e", "m", "i", "e", "r">>,
                       <<"R", "e", "c", "r", "e", "a", "t", "i", "o", "n", "a", "l">>} : Contains(text, literal)

\* The (age group, subdivision) pair in force at element i of the page: that
\* of the last qualifying heading before it, (Unknown, Unknown) when there
\* is none.
PairAt(page, i, us) ==
    LET before == {j \in 1..(i - 1) :
                      page[j].tag # "table" /\ Qualifies(page[j].text, us)}
    IN IF before = {} THEN <<UNKNOWN, UNKNOWN>>
       ELSE LET j == CHOOSE b \in before : \A o \in before : o <= b
            IN <<extract_age_group(page[j].text), page[j].text>>

\* The records of the page when every table is read under the pair in
\* force at its place.
TaggedRecords(page, us) ==
    FlattenSeq([i \in 1..Len(page) |->
        IF page[i].tag = "table"
        THEN _parse_standings_table(page[i].rows, S2024_fall, "boys_prem",
                 "Boys", PairAt(page, i, us)[1], PairAt(page, i, us)[2]).value
        ELSE <<>>])

\* C18 as stated: a heading-like element changes the current (age group,
\* subdivision) pair if and only if its text contains an age-group pattern
\* (U, optional dash, digits) and one of the literal substrings Subdivision,
\* Division, Premier, Recreational; every record of a table is tagged with
\* the pair set by the last qualifying heading that precedes the table in
\* document order, or with (Unknown, Unknown) when there is none.
C18_SectionContext_UpperU ==
    fn_done => fn_out = Returned(TaggedRecords(fn_in, {"U"}))

\* C18, amended: the same with the letter of the age-group pattern matched
\* in either case (U or u); the four literal substrings are matched as
\* written.
C18_SectionContext ==
    fn_done => fn_out = Returned(TaggedRecords(fn_in, {"U", "u"}))

\* A table under its second qualifying heading, with a heading that does
\* not qualify in between: its record carries the pair of the second.
C18_Witness ==
    /\ fn_done
    /\ fn_in = <<Heading("b", <<"U", "-", "1", "3", " ", "D", "i", "v", "i", "s", "i", "o", "n", " ", "1">>),
                 Heading("h4", <<"U", "1", "2", " ", "S", "t", "a", "n", "d", "i", "n", "g", "s">>),
                 Table(<<RowBlue>>)>>
    /\ Len(fn_out.value) = 1
    /\ fn_out.value[1].age_group = U13
    /\ fn_out.value[1].subdivision = <<"U", "-", "1", "3", " ", "D", "i", "v", "i", "s", "i", "o", "n", " ", "1">>

\* C19: end to end, archive parser: a page made of one qualifying heading
\* "U12 Premier Subdivision 3" followed by one table with a header row and
\* two well-formed data rows yields exactly two TeamStanding records, both
\* with age group U12 and subdivision "U12 Premier Subdivision 3".
C19_EndToEnd ==
    (/\ fn_done
     /\ Len(fn_in) = 2
     /\ fn_in[1].tag \in HeadingTags
     /\ fn_in[1].text = <<"U", "1", "2", " ", "P", "r", "e", "m", "i", "e", "r", " ", "S", "u", "b", "d", "i", "v", "i", "s", "i", "o", "n", " ", "3">>
     /\ fn_in[2].tag = "table"
     /\ Len(fn_in[2].rows) = 3
     /\ fn_in[2].rows[1] = HeaderCells) =>
        /\ ~fn_out.raised
        /\ Len(fn_out.value) = 2
        /\ \A i \in 1..2 :
              /\ fn_out.value[i].age_group = U12
              /\ fn_out.value[i].subdivision = <<"U", "1", "2", " ", "P", "r", "e", "m", "i", "e", "r", " ", "S", "u", "b", "d", "i", "v", "i", "s", "i", "o", "n", " ", "3">>
              /\ fn_out.value[i].team_name =
                     TeamNumberAndName(fn_in[2].rows[i + 1][1]).team_name

\* That page has been parsed, and its two records are those of the two
\* data rows, in order.
C19_Witness ==
    /\ fn_done
    /\ fn_in = <<Heading("h3", <<"U", "1", "2", " ", "P", "r", "e", "m", "i", "e", "r", " ", "S", "u", "b", "d", "i", "v", "i", "s", "i", "o", "n", " ", "3">>),
                 Table(<<HeaderCells, RowDallas, RowBlue>>)>>
    /\ Len(fn_out.value) = 2
    /\ fn_out.value[1].team_number = <<"A", "1", "2", "3">>
    /\ fn_out.value[1].team_name = <<"F", "C", " ", "D", "a", "l", "l", "a", "s">>
    /\ fn_out.value[2].team_name = <<"S", "p", "o", "r", "t", "i", "n", "g", " ", "B", "l", "u", "e">>
    /\ fn_out.value[2].losses = 12


(***************************************************************************)
(* C20: the record accumulator                                             *)
(***************************************************************************)

\* The accumulator holds the records of every fetch of the run, in fetch
\* order, each once.
C20_State ==
    all_teams = FlattenSeq([i \in 1..Len(req_log) |-> req_log[i].teams])

\* A step leaves what the accumulator held as a prefix of what it holds.
C20_Step ==
    /\ Len(all_teams') >= Len(all_teams)
    /\ SubSeq(all_teams', 1, Len(all_teams)) = all_teams

\* C20: the record accumulator is append-only: after any sequence of scrape
\* operations its earlier contents are an unchanged prefix of its current
\* contents, and it equals the concatenation, in fetch order, of the
\* records parsed from every page fetched in the run, each page's records
\* appearing exactly once.
C20_AppendOnly == []C20_State /\ [][C20_Step]_vars

\* Two archive pages of one season have each yielded a record, with a
\* failed page between them: the accumulator holds the two records in the
\* order of the fetches.
C20_Witness ==
    /\ Len(req_log) >= 3
    /\ req_log[1].kind = "archive" /\ req_log[1].yielded = 1
    /\ req_log[2].kind = "archive" /\ req_log[2].failed
    /\ req_log[3].kind = "archive" /\ req_log[3].yielded = 1
    /\ Len(all_teams) = 2
    /\ all_teams[1].division = req_log[1].division
    /\ all_teams[2].division = req_log[3].division


(***************************************************************************)
(* C21: sleeps and GETs of the two fetchers.  SpecFetch runs up to         *)
(* MaxFetches calls of one fetcher one after the other (the programs are   *)
(* single-threaded and every call is synchronous) and records the sleeps   *)
(* and GETs in the order they happen.                                      *)
(***************************************************************************)

\* heartland_scraper_v4.py, 76: REQUEST_DELAY = 0.5 (seconds, as written).
REQUEST_DELAY_v4 == <<"0", ".", "5">>

\* A slip the rate-limit claim must notice: the sleep follows the GET.
_make_request_events_SleepsAfter(resp) == <<Get(1), Sleep(REQUEST_DELAY_v4)>>

\* HeartlandScraper._make_request, 157-167: what one call does, whatever
\* the answer is: time.sleep(REQUEST_DELAY), then session.get.
_make_request_events(resp) == <<Sleep(REQUEST_DELAY_v4), Get(1)>>

MaxFetches == 2

\* The answers to the calls of one run: for the scraper the answer to the
\* one attempt of each call, for the discoverer the answers to the
\* MAX_RETRIES attempts of each call.
FetchInputs ==
    UNION {[fetcher : {"v4"}, answers : [1..n -> [1..1 -> AttemptStatuses]]]
               \cup [fetcher : {"discoverer"},
                     answers : [1..n -> [1..MAX_RETRIES -> AttemptStatuses]]] :
           n \in 1..MaxFetches}

InitFetch ==
    /\ fn_in \in FetchInputs /\ fn_out = None /\ fn_done = FALSE
    /\ ScrIdle /\ DiscIdle

\* The calls of the run, one after the other.
CallFetches ==
    /\ ~fn_done
    /\ fn_out' =
          FlattenSeq([k \in 1..Len(fn_in.answers) |->
              IF fn_in.fetcher = "v4"
              THEN _make_request_events([status |-> fn_in.answers[k][1]])
              ELSE make_request([a \in 1..MAX_RETRIES |->
                                    [status |-> fn_in.answers[k][a], body |-> a]],
                                MAX_RETRIES).trace])
    /\ fn_done' = TRUE
    /\ UNCHANGED <<fn_in, scrVars, discVars>>

NextFetch == CallFetches

SpecFetch == InitFetch /\ [][NextFetch]_vars

\* C21: fetches of the source sites are strictly sequential and
\* rate-limited: the sleeps and GETs of a run happen one after the other,
\* and every GET (each retry attempt of the discoverer included) is
\* immediately preceded by a sleep of the fetcher's fixed request delay.
C21_RateLimited ==
    fn_done =>
        \A i \in 1..Len(fn_out) :
            fn_out[i].ev = "get" =>
                /\ i > 1
                /\ fn_out[i - 1] =
                      Sleep(IF fn_in.fetcher = "v4" THEN REQUEST_DELAY_v4
                            ELSE REQUEST_DELAY)

\* Two calls of the discoverer: the first fails twice and then succeeds,
\* the second succeeds at once; four GETs, each after its own sleep of
\* REQUEST_DELAY.
C21_Witness ==
    /\ fn_done
    /\ fn_in.fetcher = "discoverer"
    /\ Len(fn_in.answers) = 2
    /\ fn_in.answers[1] = <<"http_error", "transport_error", "ok">>
    /\ fn_in.answers[2][1] = "ok"
    /\ Cardinality({i \in 1..Len(fn_out) : fn_out[i].ev = "get"}) = 4
    /\ Cardinality({i \in 1..Len(fn_out) : fn_out[i] = Sleep(REQUEST_DELAY)}) = 4
    /\ Len(fn_out) = 10


\* C22: the v4 scraper invoked with --season S together with --live
\* collects season S through the live path: every collected record is
\* tagged with season S (and no archive page is requested).
C22_LiveSeason ==
    (args.live /\ args.season # <<>>) =>
        /\ \A i \in 1..Len(all_teams) : all_teams[i].season = args.season
        /\ \A i \in 1..Len(req_log) : req_log[i].kind = "live"


(***************************************************************************)
(* Claim C23: the state filter of run_discovery.                           *)
(***************************************************************************)

\* The links the listing pages tried hold.
ListedLinks == {LinkKnown, LinkOther, LinkIdaho}

\* The text of a listing row names a state outside the run's target states:
\* its two-letter code after a comma, or its full state name, is a state
\* that is not in target_states.
NamesStateOutside(location) ==
    \/ location.code # "" /\ location.code \notin target_states
    \/ location.name # "" /\ state_names[location.name] \notin target_states

\* C23: run_discovery filters tournaments by target states: a tournament
\* whose listing text names a state outside target_states is neither saved
\* nor has its schedule page fetched by run_discovery.
C23_StateFilter ==
    \A i \in 1..Len(disc_log) :
        (disc_log[i].by = "run_discovery" /\ disc_log[i].op \in {"save", "schedule"})
            => \A l \in ListedLinks :
                   l.event_id = disc_log[i].event_id
                       => ~NamesStateOutside(l.location)

(***************************************************************************)
(* Claim C24: discovery collects unique identifiers.                       *)
(***************************************************************************)

\* The group ids of the scrape targets one loop tried to save for one
\* event, in the order of the list discover_tournament_groups returned.
GroupIdsOf(by, event_id) ==
    LET idx == SelectSeq([i \in 1..Len(disc_log) |-> i],
                   LAMBDA i : /\ disc_log[i].op = "target"
                              /\ disc_log[i].by = by
                              /\ disc_log[i].event_id = event_id)
    IN [k \in 1..Len(idx) |-> disc_log[idx[k]].group_id]

NoRepeat(s) == \A i, j \in 1..Len(s) : s[i] = s[j] => i = j

\* C24: the list discover_tournaments builds never holds two tournaments
\* with the same event id, whatever the pages hold and however identifiers
\* repeat across pages, and the list discover_tournament_groups returns for
\* an event never holds two groups with the same group id.
C24_UniqueIds ==
    /\ NoRepeat([i \in 1..Len(tournaments) |-> tournaments[i].event_id])
    /\ \A by \in {"run_discovery", "add_known_tournaments"} :
           \A e \in EventIds : NoRepeat(GroupIdsOf(by, e))

\* An identifier repeated on one page and across two pages was collected
\* once, and a schedule page naming one group twice gave two groups.
C24_Witness ==
    /\ Len(page_log) = 2 /\ page_log[1].new = 1 /\ page_log[2].new = 1
    /\ [i \in 1..Len(tournaments) |-> tournaments[i].event_id] = <<"43745", "50001">>
    /\ GroupIdsOf("run_discovery", "43745") = <<"101", "102">>

(***************************************************************************)
(* scrape_live_season (432-459) followed request by request: every         *)
(* iteration of scrape_live_division's nested loops (415-426) is a step.   *)
(***************************************************************************)

\* The seasons the live crawl is started for: an archived and the current.
LiveSeasons == {S2024_fall, CURRENT_SEASON}

InitLive ==
    /\ FnIdle /\ DiscIdle
    /\ args = NoArgs /\ pc = "live_request" /\ all_teams = <<>>
    /\ req_log = <<>> /\ todo \in {<<s>> : s \in LiveSeasons}
    /\ div_idx = 1 /\ season_teams = <<>>
    /\ files = NoFiles /\ exit_code = None
    /\ combo_idx = 1 /\ division_teams = <<>>

\* The answers tried for the request of one combination: the first and the
\* last combination of a division get any answer, the others a barren one.
LiveAnswers(level, k) ==
    IF k \in {1, NumCombos(level)} THEN Responses ELSE BarrenResponses

\* scrape_live_division, 415-426: one iteration of the inner loop, the
\* _scrape_cgi_standings call of one (age, subdivision) and the extend.
LiveCombination ==
    /\ pc = "live_request"
    /\ combo_idx <= NumCombos(LIVE_DIVISIONS[div_idx][2])
    /\ LET season == Head(todo)
           gender == LIVE_DIVISIONS[div_idx][1]
           level == LIVE_DIVISIONS[div_idx][2]
           age == LiveCombo(level, combo_idx)[1]
           subdiv == LiveCombo(level, combo_idx)[2]
       IN \E resp \in LiveAnswers(level, combo_idx) :
            LET subdiv_teams == scrape_cgi_standings(gender, level, age, subdiv,
                                                     season, resp)
            IN /\ Len(all_teams) + Len(division_teams) + Len(subdiv_teams) <= MaxTeams
               /\ req_log' = Append(req_log,
                      LiveRequest(gender, level, age, subdiv, season))
               /\ division_teams' =
                      IF subdiv_teams # <<>>
                      THEN Extend(division_teams, subdiv_teams)
                      ELSE division_teams
    /\ combo_idx' = combo_idx + 1
    /\ UNCHANGED <<args, pc, all_teams, todo, div_idx, season_teams, files,
                   exit_code, fnVars, discVars>>

\* scrape_live_division, 429-430, and scrape_live_season, 439-456: the
\* division's list is returned and both accumulators are extended with it;
\* after the fourth division scrape_live_season returns (458-459).
LiveDivisionReturn ==
    /\ pc = "live_request"
    /\ combo_idx > NumCombos(LIVE_DIVISIONS[div_idx][2])
    /\ season_teams' = Extend(season_teams, division_teams)
    /\ all_teams' = Extend(all_teams, division_teams)
    /\ division_teams' = <<>>
    /\ IF div_idx = Len(LIVE_DIVISIONS)
       THEN pc' = "live_over" /\ UNCHANGED <<div_idx, combo_idx>>
       ELSE pc' = "live_request" /\ div_idx' = div_idx + 1 /\ combo_idx' = 1
    /\ UNCHANGED <<args, req_log, todo, files, exit_code, fnVars, discVars>>

NextLive == LiveCombination \/ LiveDivisionReturn

SpecLive == InitLive /\ [][NextLive]_vars

(***************************************************************************)
(* Claim C25: the requests of scrape_live_season.                          *)
(***************************************************************************)

\* The form parameters of a request of the log.
ParamsOf(r) == [sex |-> r.sex, level |-> r.level, age |-> r.age, subdivision |-> r.subdivision]

\* One request per (age group, subdivision) of a gender and level, the
\* subdivisions of an age group one after the other.
CombinationsOf(gender, level, age_groups, subdivisions) ==
    FlattenSeq([a \in 1..Len(age_groups) |->
        [s \in 1..Len(subdivisions) |->
            [sex |-> gender, level |-> level, age |-> age_groups[a],
             subdivision |-> subdivisions[s]]]])

\* Boys Premier, Girls Premier, Boys Recreational, Girls Recreational.
ExpectedLiveRequests ==
    CombinationsOf("Boys", "Premier", PREMIER_AGE_GROUPS, PREMIER_SUBDIVISIONS)
        \o CombinationsOf("Girls", "Premier", PREMIER_AGE_GROUPS, PREMIER_SUBDIVISIONS)
        \o CombinationsOf("Boys", "Recreational", REC_AGE_GROUPS, REC_SUBDIVISIONS)
        \o CombinationsOf("Girls", "Recreational", REC_AGE_GROUPS, REC_SUBDIVISIONS)

C25_State ==
    /\ Len(ExpectedLiveRequests) = 416
    /\ Len(req_log) <= 416
    /\ \A i \in 1..Len(req_log) :
           /\ req_log[i].kind = "live"
           /\ ParamsOf(req_log[i]) = ExpectedLiveRequests[i]
    /\ pc = "live_over" =>
           /\ Len(req_log) = 416
           /\ \A i, j \in 1..416 :
                  ParamsOf(req_log[i]) = ParamsOf(req_log[j]) => i = j

\* A step of the crawl issues the next request or ends a division, and the
\* crawl is over only when all 416 requests have been issued: no answer
\* stops or shortens it.
C25_Step ==
    pc = "live_request" =>
        /\ Len(req_log') \in {Len(req_log), Len(req_log) + 1}
        /\ \A i \in 1..Len(req_log) : req_log'[i] = req_log[i]
        /\ pc' = "live_request" \/ (pc' = "live_over" /\ Len(req_log') = 416)

scrape_archive_season(season, resps) ==
    [requests |->
         [d \in 1..Len(DIVISIONS) |->
             ArchiveRequest(season, DIVISIONS[d], resps[d],
                            scrape_archive_page(season, DIVISIONS[d], resps[d]))],
     teams |->
         FlattenSeq([d \in 1..Len(DIVISIONS) |->
             scrape_archive_page(season, DIVISIONS[d], resps[d])])]

\* scrape_live_season, 432-459; resps[d][k] answers the k-th request of the
\* d-th division.
scrape_live_season(season, resps) ==
    [requests |->
         FlattenSeq([d \in 1..Len(LIVE_DIVISIONS) |->
             LiveDivisionRequests(LIVE_DIVISIONS[d][1], LIVE_DIVISIONS[d][2], season)]),
     teams |->
         FlattenSeq([d \in 1..Len(LIVE_DIVISIONS) |->
             scrape_live_division(LIVE_DIVISIONS[d][1], LIVE_DIVISIONS[d][2],
                                  season, resps[d])])]

\* scrape_season, 500-522.
scrape_season(season, force_live, archive_resps, live_resps) ==
    IF force_live \/ is_current_season(season)
    THEN scrape_live_season(season, live_resps)
    ELSE LET archive == scrape_archive_season(season, archive_resps)
         IN IF ArchiveEmpty(archive.teams)
            THEN LET live == scrape_live_season(season, live_resps)
                 IN [requests |-> archive.requests \o live.requests,
                     teams |-> live.teams]
            ELSE archive

\* Two runs of scrape_season, for two seasons, against a site that gives
\* both the same answers.
TwinSeasons == {S2024_fall, S2025_spring, CURRENT_SEASON}

\* The archive pages of a season: none exists, or the first holds a row.
TwinArchiveAnswers ==
    {[d \in 1..Len(DIVISIONS) |->
         IF d = 1 THEN r
         ELSE [status |-> "http_error", error_page |-> FALSE, rows |-> <<RowA>>]] :
        r \in {[status |-> "transport_error", error_page |-> FALSE, rows |-> <<>>],
               [status |-> "ok", error_page |-> FALSE, rows |-> <<RowA>>]}}

\* The live answers: one division answers as in LiveResponseMaps, the
\* requests of the others all fail.
TwinLiveAnswers ==
    UNION {{[d \in 1..Len(LIVE_DIVISIONS) |->
                IF d = d0 THEN m
                ELSE [k \in 1..NumCombos(LIVE_DIVISIONS[d][2]) |->
                         [status |-> "transport_error", error_page |-> FALSE,
                          rows |-> <<>>]]] :
            m \in LiveResponseMaps(NumCombos(LIVE_DIVISIONS[d0][2]))} :
           d0 \in 1..Len(LIVE_DIVISIONS)}

TwinInputs ==
    {i \in [one : TwinSeasons, two : TwinSeasons, force_live : BOOLEAN,
            archive_resps : TwinArchiveAnswers, live_resps : TwinLiveAnswers] :
        i.one # i.two}

InitTwin ==
    /\ fn_in \in TwinInputs /\ fn_out = None /\ fn_done = FALSE
    /\ ScrIdle /\ DiscIdle

CallScrapeSeasonTwice ==
    /\ ~fn_done
    /\ fn_out' = [one |-> scrape_season(fn_in.one, fn_in.force_live,
                              fn_in.archive_resps, fn_in.live_resps),
                  two |-> scrape_season(fn_in.two, fn_in.force_live,
                              fn_in.archive_resps, fn_in.live_resps)]
    /\ fn_done' = TRUE
    /\ UNCHANGED <<fn_in, scrVars, discVars>>

NextTwin == CallScrapeSeasonTwice

SpecTwin == InitTwin /\ [][NextTwin]_vars

(***************************************************************************)
(* Claim C26: the live path carries no season information.                 *)
(***************************************************************************)

\* The live requests of a run, as they go over the wire: the URL and the
\* four form parameters.
WireOf(r) == [url |-> r.url, level |-> r.level, sex |-> r.sex, age |-> r.age, subdivision |-> r.subdivision]

LiveWire(run) ==
    LET live == SelectSeq(run.requests, LAMBDA r : r.kind = "live")
    IN [i \in 1..Len(live) |-> WireOf(live[i])]

TookLivePath(run) == \E i \in 1..Len(run.requests) : run.requests[i].kind = "live"

TookArchiveFirst(run) == run.requests[1].kind = "archive"

\* C26: for any two season identifiers the live path issues the identical
\* sequence of requests (same URL, same level, sex, age and subdivision),
\* and given identical responses the two runs produce records that differ
\* only in their season tag; also when the live path is reached as the
\* fallback for an archived season.
C26_NoSeasonOnTheWire ==
    (fn_done /\ TookLivePath(fn_out.one) /\ TookLivePath(fn_out.two)) =>
        /\ LiveWire(fn_out.one) = LiveWire(fn_out.two)
        /\ Len(fn_out.one.teams) = Len(fn_out.two.teams)
        /\ \A i \in 1..Len(fn_out.one.teams) :
               /\ fn_out.one.teams[i].season = fn_in.one
               /\ fn_out.two.teams[i].season = fn_in.two
               /\ [fn_out.one.teams[i] EXCEPT !.season = fn_in.two] = fn_out.two.teams[i]

\* An archived season fell back to the live path, the current season took
\* it at once, and both runs got two records from the same answers.
C26_Witness ==
    /\ fn_done /\ ~fn_in.force_live
    /\ fn_in.one = S2024_fall /\ fn_in.two = CURRENT_SEASON
    /\ TookArchiveFirst(fn_out.one) /\ TookLivePath(fn_out.one)
    /\ ~TookArchiveFirst(fn_out.two)
    /\ Len(fn_out.one.teams) = 2 /\ Len(fn_out.two.teams) = 2
    /\ Len(LiveWire(fn_out.one)) = 416

(***************************************************************************)
(* The element tree behind the tables of a page.  A table is the sequence  *)
(* of its own rows, a row the sequence of its own cells, and a cell holds  *)
(* a text and the tables nested in it.  BeautifulSoup's find_all descends  *)
(* into every descendant, and get_text(strip=True) joins the stripped      *)
(* texts of all of them.                                                   *)
(***************************************************************************)

TextCell(text) == [text |-> text, tables |-> <<>>]

NestingCell(text, table) == [text |-> text, tables |-> <<table>>]

\* The tables below a table, in document order.
RECURSIVE nested_tables(_)
nested_tables(table) ==
    FlattenSeq([r \in 1..Len(table) |->
        FlattenSeq([c \in 1..Len(table[r]) |->
            FlattenSeq([t \in 1..Len(table[r][c].tables) |->
                <<table[r][c].tables[t]>> \o nested_tables(table[r][c].tables[t])])])])

\* soup.find_all('table') (v4 330; the table elements of find_all in v4 206
\* and v1 181): every table of the page, the nested ones after the table
\* that holds them.
find_all_tables(tables) ==
    FlattenSeq([t \in 1..Len(tables) |-> <<tables[t]>> \o nested_tables(tables[t])])

\* table.find_all('tr') (v4 224 and 333, v1 192): the rows of the table and
\* of every table nested in it, in document order.
RECURSIVE find_all_tr(_)
find_all_tr(table) ==
    FlattenSeq([r \in 1..Len(table) |->
        <<table[r]>> \o
        FlattenSeq([c \in 1..Len(table[r]) |->
            FlattenSeq([t \in 1..Len(table[r][c].tables) |->
                find_all_tr(table[r][c].tables[t])])])])

\* row.find_all(['td', 'th']) (v4 227 and 336, v1 195): the cells of the
\* row and of the rows of every table nested in them.
RECURSIVE find_all_cells(_)
find_all_cells(row) ==
    FlattenSeq([c \in 1..Len(row) |->
        <<row[c]>> \o
        FlattenSeq([t \in 1..Len(row[c].tables) |->
            FlattenSeq([r \in 1..Len(row[c].tables[t]) |->
                find_all_cells(row[c].tables[t][r])])])])

\* cell.get_text(strip=True) (v4 231 and 340, v1 203).
RECURSIVE get_text(_)
get_text(cell) ==
    PyStrip(cell.text) \o
    FlattenSeq([t \in 1..Len(cell.tables) |->
        FlattenSeq([r \in 1..Len(cell.tables[t]) |->
            FlattenSeq([c \in 1..Len(cell.tables[t][r]) |->
                get_text(cell.tables[t][r][c])])])])

\* The cell texts of the rows a parser reads, table by table.
cell_texts(row) == [c \in 1..Len(find_all_cells(row)) |-> get_text(find_all_cells(row)[c])]

rows_read(table) == [r \in 1..Len(find_all_tr(table)) |-> cell_texts(find_all_tr(table)[r])]

tables_read(tables) ==
    [t \in 1..Len(find_all_tables(tables)) |-> rows_read(find_all_tables(tables)[t])]

(***************************************************************************)
(* SpecNest: a page of one table of up to MaxDomRows rows; a row is a      *)
(* plain row of text cells or holds, in its last cell, a table of up to    *)
(* MaxDomRows plain rows.                                                  *)
(***************************************************************************)

MaxDomRows == 2

DomRow(cells) == [k \in 1..Len(cells) |-> TextCell(cells[k])]

PlainDomRows == {DomRow(RowDallas), DomRow(RowBlue)}

PlainDomTables == UNION {[1..n -> PlainDomRows] : n \in 1..MaxDomRows}

NestingDomRows ==
    {<<NestingCell(<<>>, t)>> : t \in PlainDomTables}
        \cup {<<NestingCell(<<"U", "1", "2", " ">>, t), TextCell(<<"x">>)>> : t \in PlainDomTables}

NestInputs ==
    [parser : {"archive", "live"},
     tables : {<<t>> : t \in UNION {[1..n -> PlainDomRows \cup NestingDomRows] :
                                       n \in 1..MaxDomRows}}]

InitNest ==
    /\ fn_in \in NestInputs /\ fn_out = None /\ fn_done = FALSE
    /\ ScrIdle /\ DiscIdle

CallParsePage ==
    /\ ~fn_done
    /\ fn_out' = ParseTables(fn_in.parser, tables_read(fn_in.tables))
    /\ fn_done' = TRUE
    /\ UNCHANGED <<fn_in, scrVars, discVars>>

NextNest == CallParsePage

SpecNest == InitNest /\ [][NextNest]_vars

(***************************************************************************)
(* Claim C27: one record per table row at most.                            *)
(***************************************************************************)

\* Every tr element of the page, once.
AllRows(tables) == FlattenSeq([t \in 1..Len(tables) |-> find_all_tr(tables[t])])

\* What the parser makes of one row read on its own.
RecordsOfRow(parser, row) == ParseTables(parser, << <<cell_texts(row)>> >>)

\* The rows of the page that yield the record.
RowsYielding(parser, tables, record) ==
    {i \in 1..Len(AllRows(tables)) :
        LET y == RecordsOfRow(parser, AllRows(tables)[i])
        IN ~y.raised /\ y.value = <<record>>}

Occurrences(s, v) == Cardinality({i \in 1..Len(s) : s[i] = v})

\* C27: each table row of a page contributes at most one record to a
\* parser's output, for every page structure, also when a table is nested
\* in a cell of another table: no record stands in the output more often
\* than there are rows on the page that yield it.
C27_OneRecordPerRow ==
    (fn_done /\ ~fn_out.raised) =>
        \A i \in 1..Len(fn_out.value) :
            Occurrences(fn_out.value, fn_out.value[i])
                <= Cardinality(RowsYielding(fn_in.parser, fn_in.tables, fn_out.value[i]))

(***************************************************************************)
(* Claim C28: the tournament is saved before its scrape targets.           *)
(***************************************************************************)

\* The places in disc_log of the schedule pages run_discovery fetched.
RunSchedules ==
    {i \in 1..Len(disc_log) :
        disc_log[i].op = "schedule" /\ disc_log[i].by = "run_discovery"}

\* C28: in run_discovery a scrape target is upserted for an event only
\* after save_tournament for that event has returned an identifier in the
\* same run; when the tournament save returns none, the event's schedule
\* page is not fetched and no scrape target is saved for it, and processing
\* continues with the next tournament.
C28_SaveBeforeTargets ==
    /\ \A i \in RunTargets :
           \E j \in RunSaves :
               /\ j < i
               /\ disc_log[j].event_id = disc_log[i].event_id
               /\ disc_log[j].returned
    /\ \A j \in RunSaves :
           ~disc_log[j].returned =>
               /\ \A i \in RunSchedules : disc_log[i].event_id # disc_log[j].event_id
               /\ \A i \in RunTargets : disc_log[i].event_id # disc_log[j].event_id
    /\ (dpc = "process" /\ t_idx <= Len(relevant_tournaments)) =>
           Cardinality(RunSaves) = t_idx - 1
    /\ (~dargs.known_only /\ dpc \in {"known", "done"}) =>
           Cardinality(RunSaves) = Len(relevant_tournaments)

\* The save of the first tournament returned none: nothing more was done for
\* it, and the second tournament was saved, its schedule page fetched and
\* its two groups saved as scrape targets.
C28_Witness ==
    /\ dpc = "known" /\ t_idx = 1 /\ Len(relevant_tournaments) = 2
    /\ Len(disc_log) = 5
    /\ disc_log[1].op = "save" /\ ~disc_log[1].returned
    /\ disc_log[1].event_id = "50001"
    /\ disc_log[2].op = "save" /\ disc_log[2].returned
    /\ disc_log[2].event_id = "43745"
    /\ disc_log[3].op = "schedule"
    /\ disc_log[4].op = "target" /\ disc_log[4].ok
    /\ disc_log[5].op = "target" /\ disc_log[5].ok

(***************************************************************************)
(* Claim C29: parser completeness.                                         *)
(***************************************************************************)

\* The header tokens of a parser: the texts its header test names.
HeaderTokens(parser) ==
    IF parser = "archive"
    THEN {<<"#">>, <<"t", "e", "a", "m">>, <<"n", "u", "m", "b", "e", "r">>, <<>>}
    ELSE {<<"#">>, <<"t", "e", "a", "m">>, <<"w", "i", "n">>, <<"l", "o", "s", "e">>, <<"t", "i", "e">>, <<"s", "u", "b", "d", "i", "v", "i", "s", "i", "o", "n">>, <<>>, <<"-">>}

\* The row meets the conditions of the claim.
IsCompleteRow(parser, cells) ==
    /\ Len(cells) >= MinCells(parser)
    /\ PyLower(PyStrip(cells[1])) \notin HeaderTokens(parser)
    /\ \A token \in {<<"w", "i", "n">>, <<"l", "o", "s", "e">>, <<"s", "u", "b", "d", "i", "v", "i", "s", "i", "o", "n">>} :
           ~Contains(PyLower(PyStrip(cells[1])), token)
    /\ TeamNumberAndName(PyStrip(cells[1])).team_name \notin {<<>>, <<"-">>}
    /\ \A col \in 2..8 : col <= Len(cells) => IsNumeral(PyStrip(cells[col]))

\* C29: parser completeness, in the archive parser and in the live parser
\* alike: a row that has at least the minimum cell count, whose case-folded
\* first cell is not one of the header tokens and does not contain "win",
\* "lose" or "subdivision", whose normalized name is neither empty nor a
\* single dash, and whose numeric cells are well-formed integers, yields
\* exactly one record carrying that name.
C29_Completeness ==
    (fn_done /\ IsCompleteRow(fn_in.parser, fn_in.cells)) =>
        /\ ~fn_out.raised
        /\ Len(fn_out.value) = 1
        /\ fn_out.value[1].team_name = TeamNumberAndName(PyStrip(fn_in.cells[1])).team_name

(***************************************************************************)
(* discover_tournaments (166-228) on its own, with the attempts of every   *)
(* make_request call counted: page_log entries carry a ghost field         *)
(* attempts, the GETs the call issued.                                     *)
(***************************************************************************)

InitList ==
    /\ FnIdle /\ ScrIdle
    /\ dargs \in {a \in DiscArgsSet : ~a.known_only}
    /\ dpc = "list" /\ current_page = 1
    /\ seen_event_ids = {} /\ tournaments = <<>> /\ page_log = <<>>
    /\ t_idx = 0 /\ tournaments_saved = 0 /\ groups_saved = 0
    /\ tournament_sources = {} /\ scrape_targets = {}
    /\ unique_event_id = FALSE /\ disc_log = <<>>

\* discover_tournaments, 174-225: one iteration of the loop over the pages,
\* as in DiscoverPage.
DiscoverPageCounted ==
    /\ dpc = "list"
    /\ \E answers \in AnswersTo(ListingBodiesOf(dargs.pages)) :
        LET made == make_request(answers, MAX_RETRIES)
            response == made.response
            attempts == Cardinality({k \in 1..Len(made.trace) :
                                        made.trace[k].ev = "get"})
        IN IF response = <<>>
           THEN /\ page_log' = Append(page_log,
                       [page |-> current_page, ok |-> FALSE, new |-> 0,
                        attempts |-> attempts])
                /\ dpc' = "returned"
                /\ UNCHANGED <<current_page, seen_event_ids, tournaments>>
           ELSE LET c == event_links_loop(response[1].body, seen_event_ids,
                                          tournaments, 0)
                IN /\ seen_event_ids' = c.seen_event_ids
                   /\ tournaments' = c.tournaments
                   /\ page_log' = Append(page_log,
                          [page |-> current_page, ok |-> TRUE,
                           new |-> c.page_count, attempts |-> attempts])
                   /\ IF \/ StopsCrawl(c.page_count, current_page)
                         \/ current_page = dargs.pages
                      THEN dpc' = "returned" /\ UNCHANGED current_page
                      ELSE current_page' = current_page + 1 /\ UNCHANGED dpc
    /\ UNCHANGED <<dargs, t_idx, tournaments_saved, groups_saved,
                   tournament_sources, scrape_targets, unique_event_id,
                   disc_log, fnVars, scrVars>>

NextList == DiscoverPageCounted

SpecList == InitList /\ [][NextList]_vars

\* The loop is a plain for loop: an iteration that can run does run.
FairSpecList == SpecList /\ WF_vars(NextList)

(***************************************************************************)
(* Claim C30: discover_tournaments terminates.                             *)
(***************************************************************************)

C30_State ==
    /\ Len(page_log) <= dargs.pages
    /\ \A i \in 1..Len(page_log) :
           /\ page_log[i].page = i
           /\ page_log[i].attempts \in 1..MAX_RETRIES
           /\ ~page_log[i].ok =>
                  /\ page_log[i].attempts = MAX_RETRIES
                  /\ i = Len(page_log)
                  /\ dpc = "returned"

\* The step whose page fails on every attempt ends the crawl and leaves the
\* tournaments collected so far as they are.
C30_Step ==
    (Len(page_log') = Len(page_log) + 1 /\ ~page_log'[Len(page_log')].ok) =>
        /\ tournaments' = tournaments
        /\ dpc' = "returned"

\* C30: discover_tournaments always terminates: it fetches at most
\* max_pages listing pages, each with at most MAX_RETRIES attempts, and
\* when every attempt for a page fails it fetches no further page and
\* returns the tournaments collected from the earlier pages.
C30_Terminates ==
    /\ []C30_State
    /\ [][C30_Step]_vars
    /\ <>(dpc = "returned")

\* Page 1 came at the third attempt and held a tournament, page 2 failed
\* three times: the crawl is over with that one tournament.
C30_Witness ==
    /\ dpc = "returned" /\ dargs.pages = 3
    /\ Len(page_log) = 2
    /\ page_log[1].ok /\ page_log[1].attempts = 3 /\ page_log[1].new = 1
    /\ ~page_log[2].ok /\ page_log[2].attempts = 3
    /\ Len(tournaments) = 1

=============================================================================
